---- MODULE Spec2Model ----
(***************************************************************************)
(* A model of the goscript bytecode generator (codegen/src/codegen.rs).    *)
(*                                                                         *)
(* The generator is a recursive visitor over a parsed AST.  Its state is   *)
(* the CodeGen struct: the object arenas (functions, packages, strings,    *)
(* types), the ordered package list, the package index map, the current    *)
(* package, the stack of functions under construction and the error sink.  *)
(* The visitor is modelled by recursive operators over a record `g` that   *)
(* holds these fields; every operator returns the new generator state and  *)
(* the visit's outcome: "Ok" (Ok(())), "Err" (Err(())) or the cause of a    *)
(* Rust panic (unwrap on None/Err, unreachable!, unimplemented!, assert!). *)
(***************************************************************************)
EXTENDS Integers, Sequences, FiniteSets, TLC

(***************************************************************************)
(* Code words.  A function's code is a sequence of 16-bit words, each an   *)
(* opcode (CodeData::Code) or a signed data word (CodeData::Data).         *)
(***************************************************************************)
Code(op) == [op |-> op, d |-> 0]

Data(d) == [op |-> "DATA", d |-> d]

\* OpIndex is i16: the width of a data word.
I16Bits == 16

I16Max == 2 ^ (I16Bits - 1) - 1

I16Min == -(2 ^ (I16Bits - 1))

FitsI16(n) == n >= I16Min /\ n <= I16Max

\* `n as i16` of Rust: truncation to the low 16 bits, two's complement.
AsI16(n) ==
  LET m == n % (2 ^ I16Bits)
  IN  IF m > I16Max THEN m - 2 ^ I16Bits ELSE m

(***************************************************************************)
(* EntIndex, LeftHandSide and values.                                      *)
(***************************************************************************)
NoEnt == "<none>"

EntIndex(k, i) == [k |-> k, i |-> i, op |-> ""]

LocalVar(i) == EntIndex("LocalVar", i)

UpValue(i) == EntIndex("UpValue", i)

PackageMember(i) == EntIndex("PackageMember", i)

Const(i) == EntIndex("Const", i)

BuiltIn(op) == [k |-> "BuiltIn", i |-> 0, op |-> op]

Blank == EntIndex("Blank", 0)

\* LeftHandSide::Primitive(EntIndex) | IndexSelExpr(i16) | Deref(i16)
Primitive(idx) == [k |-> "Primitive", idx |-> idx, off |-> 0]

IndexSelExpr(off) == [k |-> "IndexSelExpr", idx |-> Blank, off |-> off]

Deref(off) == [k |-> "Deref", idx |-> Blank, off |-> off]

\* GosValue: the payload of Str, Type, Function, Slice and Map is an arena key.
Val(t, v) == [t |-> t, v |-> v]

Nil == Val("Nil", 0)

(***************************************************************************)
(* The generator state `g` (struct CodeGen) and the objects it owns.       *)
(* Arena keys are positions in the arena's sequence; 0 is null_key!().     *)
(***************************************************************************)
NullKey == 0

\* Function::new (func.rs)
NewFunctionVal(pkg, typ, variadic, ctor) ==
  [package |-> pkg, typ |-> typ, variadic |-> variadic, is_ctor |-> ctor,
   code |-> <<>>, consts |-> <<>>, entities |-> [e \in {} |-> Blank],
   local_count |-> 0, up_ptrs |-> <<>>, param_count |-> 0, ret_count |-> 0]

\* PackageVal::new (vm ds)
NewPackageVal(name) ==
  [name |-> name, members |-> <<>>, member_indices |-> [e \in {} |-> 0],
   main_func |-> -1, vars |-> <<>>]

\* A type object: its data variant, its zero value and, for a struct, the
\* members attached to it.
TypeObj(kind, name, elems, zero) ==
  [kind |-> kind, name |-> name, elems |-> elems, zero |-> zero, members |-> <<>>]

\* VMObjects::new: the arenas start with the basic types, whose zero values
\* they carry, and the default closure type (no parameters, no results).
InitStrings == << <<>> >>

InitTypes ==
  << TypeObj("basic", "bool", <<>>, Val("Bool", 0)),
     TypeObj("basic", "int", <<>>, Val("Int", 0)),
     TypeObj("basic", "float64", <<>>, Val("Float64", 0)),
     TypeObj("basic", "string", <<>>, Val("Str", 1)),
     TypeObj("closure", "", << <<>>, <<>> >>, Nil) >>

default_closure_type == Val("Type", Len(InitTypes))

\* CodeGen::new
NewCodeGen ==
  [functions |-> <<>>, pkgs |-> <<>>, strings |-> InitStrings,
   types |-> InitTypes, slices |-> <<>>, maps |-> <<>>,
   package_indices |-> [n \in {} |-> 0], packages |-> <<>>,
   current_pkg |-> NullKey, func_stack |-> <<>>, errors |-> <<>>]

\* *func_stack.last().unwrap(): the key of the function all emissions target.
current_func_key(g) == g.func_stack[Len(g.func_stack)]

current_func(g) == g.functions[current_func_key(g)]

\* Result of a visit: the new generator state and Ok / Err / Panic.
Res(g, r) == [g |-> g, r |-> r]

Ok(g) == Res(g, "Ok")

Err(g) == Res(g, "Err")

\* A Rust panic, by its cause; it ends the program.
Unreachable == "panic: unreachable!()"

Unimplemented == "panic: unimplemented!()"

UnwrapNone == "panic: unwrap() on None or Err"

TryFromErr == "panic: i16::try_from(..).unwrap()"

AssertFailed == "panic: assertion failed"

IndexOOB == "panic: index out of bounds"

Panic(g, cause) == Res(g, cause)

IsPanic(r) == r \notin {"Ok", "Err"}

\* errors.add(pos, msg): a diagnostic with its position.
add_error(g, pos, msg, arg) ==
  [g EXCEPT !.errors = Append(@, [pos |-> pos, msg |-> msg, arg |-> arg])]

error_undefined(g, pos, name) == add_error(g, pos, "undefined", name)

error_mismatch(g, pos, l, r) ==
  add_error(g, pos, "assignment mismatch", <<l, r>>)

(***************************************************************************)
(* Emission into a function (func.rs).  Each opcode is one word; opcodes   *)
(* with operands are followed by their data words.                         *)
(***************************************************************************)
emit_code_f(g, fkey, op) ==
  [g EXCEPT !.functions[fkey].code = Append(@, Code(op))]

emit_data_f(g, fkey, d) ==
  [g EXCEPT !.functions[fkey].code = Append(@, Data(d))]

emit_code(g, op) == emit_code_f(g, current_func_key(g), op)

emit_data(g, d) == emit_data_f(g, current_func_key(g), d)

code_len(g) == Len(current_func(g).code)

\* func.code[i] = CodeData::Data(d), i a 0-based index.
set_code_data(g, i, d) ==
  [g EXCEPT !.functions[current_func_key(g)].code[i + 1] = Data(d)]

LoadOp(idx) ==
  CASE idx.k = "LocalVar" -> "LOAD_LOCAL"
    [] idx.k = "UpValue" -> "LOAD_UPVALUE"
    [] idx.k = "PackageMember" -> "LOAD_THIS_PKG_FIELD"
    [] idx.k = "Const" -> "PUSH_CONST"
    [] OTHER -> "LOAD_BLANK"

\* emit_load: LOAD(index); a built-in value is its single opcode.
emit_load(g, idx) ==
  IF idx.k = "BuiltIn" THEN emit_code(g, idx.op)
  ELSE emit_data(emit_code(g, LoadOp(idx)), idx.i)

StoreOp(lhs) ==
  CASE lhs.k = "IndexSelExpr" -> "STORE_FIELD"
    [] lhs.k = "Deref" -> "STORE_DEREF"
    [] lhs.idx.k = "LocalVar" -> "STORE_LOCAL"
    [] lhs.idx.k = "UpValue" -> "STORE_UPVALUE"
    [] lhs.idx.k = "PackageMember" -> "STORE_THIS_PKG_FIELD"
    [] OTHER -> "STORE_BLANK"

\* Numbering of the operator opcodes carried as a STORE's op data word.
OpNum(op) ==
  CASE op = "ADD" -> 1 [] op = "SUB" -> 2 [] op = "MUL" -> 3
    [] op = "QUO" -> 4 [] op = "REM" -> 5 [] op = "AND" -> 6
    [] op = "OR" -> 7 [] op = "XOR" -> 8 [] op = "SHL" -> 9
    [] op = "SHR" -> 10 [] op = "AND_NOT" -> 11 [] OTHER -> 0

\* emit_store: STORE(lhs, val_index, op?): the opcode, the target's index or
\* stack offset, the value's stack offset and, for op=, the operator.
emit_store(g, lhs, val_index, op) ==
  LET g1 == emit_code(g, StoreOp(lhs))
      g2 == emit_data(g1, IF lhs.k = "Primitive" THEN lhs.idx.i ELSE lhs.off)
      g3 == emit_data(g2, val_index)
  IN  IF op = "" THEN g3 ELSE emit_data(g3, OpNum(op))

emit_pop(g) == emit_code(g, "POP")

emit_return(g) == emit_code(g, "RETURN")

emit_return_f(g, fkey) == emit_code_f(g, fkey, "RETURN")

emit_return_init_pkg_f(g, fkey, index) ==
  emit_data_f(emit_code_f(g, fkey, "RETURN_INIT_PKG"), fkey, index)

emit_pre_call(g) == emit_code(g, "PRE_CALL")

emit_call(g, ellipsis) ==
  emit_code(g, IF ellipsis THEN "CALL_ELLIPSIS" ELSE "CALL")

emit_new(g) == emit_code(g, "NEW")

emit_load_field(g) == emit_code(g, "LOAD_FIELD")

emit_range(g) == emit_code(g, "RANGE")

emit_import_f(g, fkey, i) ==
  emit_data_f(emit_code_f(g, fkey, "IMPORT"), fkey, i)

(***************************************************************************)
(* Function tables (func.rs): locals, constants, upvalues.                 *)
(***************************************************************************)
\* entity_index: the EntIndex recorded for an entity in function f, if any.
has_entity(f, ent) == ent \in DOMAIN f.entities

\* add_local: a fresh local slot, bound to the entity when there is one.
add_local_f(f, ent) ==
  [f EXCEPT !.local_count = @ + 1,
            !.entities = IF ent = NoEnt THEN @
                         ELSE (ent :> LocalVar(f.local_count)) @@ @]

\* add_const: the pool index of (entity, value), appended when not yet there.
const_pos(f, ent, val) ==
  IF \E i \in 1..Len(f.consts) : f.consts[i] = [ent |-> ent, val |-> val]
  THEN CHOOSE i \in 1..Len(f.consts) : f.consts[i] = [ent |-> ent, val |-> val]
  ELSE Len(f.consts) + 1

add_const_f(f, ent, val) ==
  LET i == const_pos(f, ent, val)
  IN  [f EXCEPT !.consts = IF i > Len(@)
                           THEN Append(@, [ent |-> ent, val |-> val]) ELSE @,
                !.entities = IF ent = NoEnt THEN @
                             ELSE (ent :> Const(i - 1)) @@ @]

\* func.add_const on the current function; yields the state and Const(i).
add_const(g, ent, val) ==
  [g |-> [g EXCEPT !.functions[current_func_key(g)] = add_const_f(@, ent, val)],
   idx |-> Const(const_pos(current_func(g), ent, val) - 1)]

\* try_add_upvalue: the slot of the entity's upvalue, appended when new.
try_add_upvalue_f(f, ent, uv) ==
  IF has_entity(f, ent) THEN f
  ELSE [f EXCEPT !.up_ptrs = Append(@, uv),
                 !.entities = (ent :> UpValue(Len(f.up_ptrs))) @@ @]

(***************************************************************************)
(* Package object (vm ds.rs).                                              *)
(***************************************************************************)
\* add_member: append a member value, record its entity, return its index.
add_member_p(p, ent, val) ==
  [p EXCEPT !.members = Append(@, val),
            !.member_indices = IF ent = NoEnt THEN @
                               ELSE (ent :> Len(p.members)) @@ @]

\* add_var: a member slot for a package variable held in constructor local i.
add_var_p(p, ent, i) ==
  [add_member_p(p, ent, Nil) EXCEPT !.vars = Append(@, i)]

set_main_func_p(p, index) == [p EXCEPT !.main_func = index]

(***************************************************************************)
(* The AST (parser crate): expressions, statements, declarations.  Every   *)
(* node is a record tagged by `k`.  An identifier carries its name, the    *)
(* entity the parser resolved it to (NoEnt when unresolved) and its        *)
(* position.                                                               *)
(***************************************************************************)
None == [k |-> "None"]

Ident(name, ent, pos) == [k |-> "Ident", name |-> name, ent |-> ent, pos |-> pos]

\* A basic literal: its token kind, and its text as a number (INT, FLOAT as
\* thousandths, CHAR as the code point) or as a sequence of characters
\* (STRING, quotes included).
BasicLit(tok, n, s, pos) == [k |-> "BasicLit", tok |-> tok, n |-> n, s |-> s, pos |-> pos]

FuncType(params, results) == [k |-> "Func", params |-> params, results |-> results]

\* A FieldList, as an optional result list or receiver.
FieldList(list) == [k |-> "FieldList", list |-> list]

Field(names, typ) == [names |-> names, typ |-> typ]

FuncLit(typ, body) == [k |-> "FuncLit", typ |-> typ, body |-> body]

CompositeLit(typ, elts) == [k |-> "CompositeLit", typ |-> typ, elts |-> elts]

Paren(x) == [k |-> "Paren", x |-> x]

Selector(x, sel) == [k |-> "Selector", x |-> x, sel |-> sel]

Index(x, index) == [k |-> "Index", x |-> x, index |-> index]

SliceExpr(x, low, high, max) == [k |-> "Slice", x |-> x, low |-> low, high |-> high, max |-> max]

TypeAssert(x, typ) == [k |-> "TypeAssert", x |-> x, typ |-> typ]

Call(func, args, ellipsis) == [k |-> "Call", func |-> func, args |-> args, ellipsis |-> ellipsis]

Star(x) == [k |-> "Star", x |-> x]

Unary(op, x) == [k |-> "Unary", op |-> op, x |-> x]

Binary(x, op, y) == [k |-> "Binary", x |-> x, op |-> op, y |-> y]

KeyValue(key, val) == [k |-> "KeyValue", key |-> key, val |-> val]

ArrayType(len, elt) == [k |-> "Array", len |-> len, elt |-> elt]

MapType(key, val) == [k |-> "Map", key |-> key, val |-> val]

ChanType(val) == [k |-> "Chan", val |-> val]

EllipsisType(elt) == [k |-> "Ellipsis", elt |-> elt]

StructType(fields) == [k |-> "Struct", fields |-> fields]

InterfaceType(methods) == [k |-> "Interface", methods |-> methods]

\* Statements.
ExprStmt(x) == [k |-> "Expr", x |-> x]

AssignStmt(lhs, tok, rhs) == [k |-> "Assign", lhs |-> lhs, tok |-> tok, rhs |-> rhs]

IncDecStmt(x, tok) == [k |-> "IncDec", x |-> x, tok |-> tok]

ReturnStmt(results) == [k |-> "Return", results |-> results]

BlockStmt(list) == [k |-> "Block", list |-> list]

IfStmt(init, cond, body, els) == [k |-> "If", init |-> init, cond |-> cond, body |-> body, els |-> els]

ForStmt(init, cond, post, body) == [k |-> "For", init |-> init, cond |-> cond, post |-> post, body |-> body]

RangeStmt(key, val, tok, x, body) == [k |-> "Range", key |-> key, val |-> val, tok |-> tok, x |-> x, body |-> body]

\* labeled, send, go, defer, branch, switch, type switch, select, case, comm
OtherStmt(kind, pos) == [k |-> kind, pos |-> pos]

\* Declarations and specs.
ValueSpec(names, typ, values) == [k |-> "Value", names |-> names, typ |-> typ, values |-> values]

TypeSpec(name, typ) == [k |-> "Type", name |-> name, typ |-> typ]

ImportSpec(path) == [k |-> "Import", path |-> path]

GenDecl(tok, specs) == [k |-> "Gen", tok |-> tok, specs |-> specs]

DeclStmt(decl) == [k |-> "Decl", decl |-> decl]

FuncDecl(name, recv, typ, body) == [k |-> "FuncDecl", name |-> name, recv |-> recv, typ |-> typ, body |-> body]

File(name, decls) == [name |-> name, decls |-> decls]

\* Ident::blank(0), inserted by load_parse_gen as the generator's blank_ident.
blank_ident == Ident("_", NoEnt, 0)

is_blank(id) == id.name = "_"

\* Expr::pos: the position of the leftmost token of an expression.
RECURSIVE PosOf(_)
PosOf(e) ==
  CASE e.k \in {"Ident", "BasicLit"} -> e.pos
    [] e.k \in {"Paren", "Selector", "Index", "Slice", "TypeAssert", "Star", "Unary", "Binary"} -> PosOf(e.x)
    [] e.k = "Call" -> PosOf(e.func)
    [] OTHER -> 0

(***************************************************************************)
(* Identifier resolution.                                                  *)
(***************************************************************************)
\* A result that also carries a value (an EntIndex, a GosValue, a key).
RV(g, r, v) == [g |-> g, r |-> r, v |-> v]

\* Rust's `?`: continue with F on Ok, return the failure (Err, or the panic)
\* otherwise.  Then hands F the state, Bind the whole successful result.
Then(r, F(_)) == IF r.r # "Ok" THEN Res(r.g, r.r) ELSE F(r.g)

Bind(r, F(_)) == IF r.r # "Ok" THEN RV(r.g, r.r, Nil) ELSE F(r)

\* let v = ...; F
Let(v, F(_)) == F(v)

\* A table of built-in values that lacks nil.
built_in_vals_without_nil == ("true" :> "PUSH_TRUE") @@ ("false" :> "PUSH_FALSE")

built_in_vals ==
  ("true" :> "PUSH_TRUE") @@ ("false" :> "PUSH_FALSE") @@ ("nil" :> "PUSH_NIL")

\* A scan that does not skip the package constructor.
upvalue_candidates_with_ctor(g, ent) ==
  {i \in 1..(Len(g.func_stack) - 1) : has_entity(g.functions[g.func_stack[i]], ent)}

\* The func_stack positions scanned for an upvalue: skip(1) drops the package
\* constructor at the bottom, rev().skip(1) drops the current function.
upvalue_candidates(g, ent) ==
  {i \in 2..(Len(g.func_stack) - 1) : has_entity(g.functions[g.func_stack[i]], ent)}

Max(S) == CHOOSE x \in S : \A y \in S : y <= x

Min(S) == CHOOSE x \in S : \A y \in S : x <= y

resolve_ident(g, id) ==
  IF id.ent = NoEnt
  THEN \* 0. try built-ins
       IF id.name \in DOMAIN built_in_vals
       THEN RV(g, "Ok", BuiltIn(built_in_vals[id.name]))
       ELSE RV(error_undefined(g, id.pos, id.name), "Err", Blank)
  ELSE IF has_entity(current_func(g), id.ent)
  THEN \* 1. try local first
       RV(g, "Ok", current_func(g).entities[id.ent])
  ELSE IF upvalue_candidates(g, id.ent) # {}
  THEN \* 2. try upvalue: find_map yields the first hit of the reversed scan
       LET owner == g.func_stack[Max(upvalue_candidates(g, id.ent))]
           uv == [k |-> "Open", func |-> owner, index |-> g.functions[owner].entities[id.ent].i]
           fk == current_func_key(g)
           g1 == [g EXCEPT !.functions[fk] = try_add_upvalue_f(@, id.ent, uv)]
       IN  RV(g1, "Ok", g1.functions[fk].entities[id.ent])
  ELSE IF id.ent \in DOMAIN g.pkgs[g.current_pkg].member_indices
  THEN \* 3. try the package level
       RV(g, "Ok", PackageMember(g.pkgs[g.current_pkg].member_indices[id.ent]))
  ELSE \* unreachable!()
       RV(g, Unreachable, Blank)

add_local_or_resolve_ident(g, id, is_def) ==
  IF is_blank(id) THEN RV(g, "Ok", Blank)
  ELSE IF is_def
  THEN LET fk == current_func_key(g)
           f == g.functions[fk]
           index == LocalVar(f.local_count)
           g1 == [g EXCEPT !.functions[fk] = add_local_f(@, id.ent)]
       IN  IF f.is_ctor
           THEN IF id.ent = NoEnt
                THEN RV(g1, UnwrapNone, Blank)   \* ident_key.unwrap()
                ELSE RV([g1 EXCEPT !.pkgs[f.package] = add_var_p(@, id.ent, index.i)],
                        "Ok", index)
           ELSE RV(g1, "Ok", index)
  ELSE resolve_ident(g, id)

\* current_func_add_const_def: a constant bound to an entity; in the package
\* constructor it is a package member too.
current_func_add_const_def(g, ent, cst) ==
  LET f == current_func(g)
      g1 == add_const(g, ent, cst).g
  IN  IF f.is_ctor
      THEN [g1 EXCEPT !.pkgs[f.package] = add_member_p(@, ent, cst)]
      ELSE g1

\* GosValue::new_str: a fresh string object.
new_str(g, chars) ==
  RV([g EXCEPT !.strings = Append(@, chars)], "Ok", Val("Str", Len(g.strings) + 1))

\* gen_push_ident_str: push an identifier's name as a string constant.
gen_push_ident_str(g, id) ==
  LET s == new_str(g, <<id.name>>)
      c == add_const(s.g, NoEnt, s.v)
  IN  emit_load(c.g, c.idx)

built_in_funcs ==
  << [name |-> "new", opcode |-> "NEW", params_count |-> 1, variadic |-> FALSE],
     [name |-> "make", opcode |-> "MAKE", params_count |-> 2, variadic |-> TRUE],
     [name |-> "len", opcode |-> "LEN", params_count |-> 1, variadic |-> FALSE],
     [name |-> "cap", opcode |-> "CAP", params_count |-> 1, variadic |-> FALSE],
     [name |-> "append", opcode |-> "APPEND", params_count |-> 2, variadic |-> TRUE],
     [name |-> "assert", opcode |-> "ASSERT", params_count |-> 1, variadic |-> FALSE] >>

\* built_in_func_index: 0 when the name is no built-in function.
built_in_func_index(name) ==
  IF \E i \in 1..Len(built_in_funcs) : built_in_funcs[i].name = name
  THEN CHOOSE i \in 1..Len(built_in_funcs) : built_in_funcs[i].name = name
  ELSE 0

(***************************************************************************)
(* Type and literal materialisation.                                       *)
(***************************************************************************)
\* objects.basic_type: the key of a basic type, 0 when the name is none.
basic_type(g, name) ==
  IF \E i \in 1..Len(InitTypes) : InitTypes[i].kind = "basic" /\ InitTypes[i].name = name
  THEN CHOOSE i \in 1..Len(InitTypes) : InitTypes[i].kind = "basic" /\ InitTypes[i].name = name
  ELSE 0

\* GosType::new_slice, new_map, ...: a fresh type object.
new_type(g, kind, elems) ==
  RV([g EXCEPT !.types = Append(@, TypeObj(kind, "", elems, Nil))], "Ok",
     Val("Type", Len(g.types) + 1))

RECURSIVE get_or_gen_type(_, _), gen_field_types(_, _, _, _), gen_struct_fields(_, _, _, _)

\* The types of a field list, one per field, left to right.
gen_field_types(g, fields, i, acc) ==
  IF i > Len(fields) THEN RV(g, "Ok", acc)
  ELSE Bind(get_or_gen_type(g, fields[i].typ), LAMBDA t :
         gen_field_types(t.g, fields, i + 1, Append(acc, t.v.v)))

\* The field types of a struct, one per declared name.
gen_struct_fields(g, fields, i, acc) ==
  IF i > Len(fields) THEN RV(g, "Ok", acc)
  ELSE Bind(get_or_gen_type(g, fields[i].typ), LAMBDA t :
         gen_struct_fields(t.g, fields, i + 1,
           acc \o [j \in 1..Len(fields[i].names) |->
                     [name |-> fields[i].names[j].name, typ |-> t.v.v]]))

get_or_gen_type(g, expr) ==
  CASE expr.k = "Ident" ->
         IF basic_type(g, expr.name) # 0
         THEN RV(g, "Ok", Val("Type", basic_type(g, expr.name)))
         ELSE Bind(resolve_ident(g, expr), LAMBDA i :
                IF i.v.k = "Const"
                THEN RV(i.g, "Ok", current_func(i.g).consts[i.v.i + 1].val)
                ELSE IF i.v.k = "PackageMember"
                THEN RV(i.g, "Ok", i.g.pkgs[i.g.current_pkg].members[i.v.i + 1])
                ELSE RV(i.g, Unreachable, Nil))   \* unreachable!()
    [] expr.k = "Array" ->
         Bind(get_or_gen_type(g, expr.elt), LAMBDA t : new_type(t.g, "slice", <<t.v.v>>))
    [] expr.k = "Map" ->
         Bind(get_or_gen_type(g, expr.key), LAMBDA kt :
           Bind(get_or_gen_type(kt.g, expr.val), LAMBDA vt :
             new_type(vt.g, "map", <<kt.v.v, vt.v.v>>)))
    [] expr.k = "Struct" ->
         Bind(gen_struct_fields(g, expr.fields, 1, <<>>), LAMBDA fs :
           new_type(fs.g, "struct", fs.v))
    [] expr.k = "Interface" ->
         Bind(gen_field_types(g, expr.methods, 1, <<>>), LAMBDA ms :
           new_type(ms.g, "interface", ms.v))
    [] expr.k = "Func" ->
         Bind(gen_field_types(g, expr.params, 1, <<>>), LAMBDA ps :
           Bind(IF expr.results.k = "None" THEN RV(ps.g, "Ok", <<>>)
                ELSE gen_field_types(ps.g, expr.results.list, 1, <<>>), LAMBDA rs :
             new_type(rs.g, "closure", <<ps.v, rs.v>>)))
    [] expr.k = "Star" ->
         Bind(get_or_gen_type(g, expr.x), LAMBDA t : new_type(t.g, "boxed", <<t.v.v>>))
    [] expr.k = "Ellipsis" ->
         IF expr.elt.k = "None" THEN RV(g, UnwrapNone, Nil)   \* elt.unwrap()
         ELSE Bind(get_or_gen_type(g, expr.elt), LAMBDA t :
                new_type(t.g, "variadic", <<t.v.v>>))
    [] OTHER -> RV(g, Unimplemented, Nil)   \* Chan: unimplemented!(); else unreachable!()

get_type_default(g, expr) ==
  Bind(get_or_gen_type(g, expr), LAMBDA t :
    IF t.v.t # "Type" THEN RV(t.g, Unreachable, Nil)   \* typ.as_type()
    ELSE RV(t.g, "Ok", t.g.types[t.v.v].zero))

\* An INT literal whose text does not parse as isize is written n < 0 (the
\* sign of a literal is never part of its token).
parses_as_isize(blit) == blit.n >= 0

\* FLOAT literals are kept in thousandths.
FloatUnit == 1000

\* s[1..s.len() - 1]: the text between the quotes.
strip_quotes(s) == SubSeq(s, 2, Len(s) - 1)

get_const_value(g, typ, blit) ==
  IF typ.k = "None"
  THEN CASE blit.tok = "INT" ->
              IF parses_as_isize(blit) THEN RV(g, "Ok", Val("Int", blit.n))
              ELSE RV(g, UnwrapNone, Nil)   \* parse::<isize>().unwrap()
         [] blit.tok = "FLOAT" -> RV(g, "Ok", Val("Float64", blit.n))
         [] blit.tok = "CHAR" -> RV(g, "Ok", Val("Int", blit.n))
         [] blit.tok = "STRING" -> new_str(g, strip_quotes(blit.s))
         [] OTHER -> RV(g, Unimplemented, Nil)   \* IMAG: unimplemented!()
  ELSE Bind(get_type_default(g, typ), LAMBDA tv :
         CASE tv.v.t = "Int" /\ blit.tok = "FLOAT" ->
                IF blit.n % FloatUnit # 0
                THEN RV(add_error(tv.g, blit.pos, "truncated to integer", blit.n), "Err", Nil)
                ELSE RV(tv.g, "Ok", Val("Int", blit.n \div FloatUnit))
           [] tv.v.t = "Int" /\ blit.tok = "INT" ->
                IF parses_as_isize(blit) THEN RV(tv.g, "Ok", Val("Int", blit.n))
                ELSE RV(add_error(tv.g, blit.pos, "overflows int", blit.n), "Err", Nil)
           [] tv.v.t = "Int" /\ blit.tok = "CHAR" -> RV(tv.g, "Ok", Val("Int", blit.n))
           [] tv.v.t = "Float64" /\ blit.tok = "FLOAT" -> RV(tv.g, "Ok", Val("Float64", blit.n))
           [] tv.v.t = "Float64" /\ blit.tok \in {"INT", "CHAR"} ->
                RV(tv.g, "Ok", Val("Float64", blit.n * FloatUnit))
           [] tv.v.t = "Str" /\ blit.tok = "STRING" -> new_str(tv.g, blit.s)
           [] OTHER ->
                RV(add_error(tv.g, blit.pos, "invalid constant literal", 0), "Err", Nil))

value_from_basic_literal(g, typ, expr) ==
  IF expr.k = "BasicLit" THEN get_const_value(g, typ, expr)
  ELSE RV(add_error(g, PosOf(expr), "complex constant not supported yet", 0), "Err", Nil)

RECURSIVE value_from_literal(_, _, _)
RECURSIVE comp_slice_vals(_, _, _, _, _), comp_map_vals(_, _, _, _, _)

comp_slice_vals(g, elt_typ, elts, i, acc) ==
  IF i > Len(elts) THEN RV(g, "Ok", acc)
  ELSE Bind(value_from_literal(g, elt_typ, elts[i]), LAMBDA v :
         comp_slice_vals(v.g, elt_typ, elts, i + 1, Append(acc, v.v)))

comp_map_vals(g, map, elts, i, acc) ==
  IF i > Len(elts) THEN RV(g, "Ok", acc)
  ELSE IF elts[i].k # "KeyValue" THEN RV(g, Unreachable, acc)   \* unreachable!()
  ELSE Bind(value_from_literal(g, map.key, elts[i].key), LAMBDA k :
         Bind(value_from_literal(k.g, map.val, elts[i].val), LAMBDA v :
           comp_map_vals(v.g, map, elts, i + 1, Append(acc, <<k.v, v.v>>))))

get_comp_value(g, typ, literal) ==
  CASE typ.k = "Array" ->
         IF typ.len.k # "None" THEN RV(g, Unimplemented, Nil)   \* array is not supported yet
         ELSE Bind(comp_slice_vals(g, typ.elt, literal.elts, 1, <<>>), LAMBDA vals :
                RV([vals.g EXCEPT !.slices = Append(@, vals.v)], "Ok",
                   Val("Slice", Len(vals.g.slices) + 1)))
    [] typ.k = "Map" ->
         Bind(comp_map_vals(g, typ, literal.elts, 1, <<>>), LAMBDA key_vals :
           Bind(get_type_default(key_vals.g, typ.val), LAMBDA val :
             RV([val.g EXCEPT !.maps = Append(@, key_vals.v)], "Ok",
                Val("Map", Len(val.g.maps) + 1))))
    [] OTHER -> RV(g, Unimplemented, Nil)   \* unimplemented!()

value_from_literal(g, typ, expr) ==
  IF typ.k \in {"Array", "Map", "Struct"}
  THEN IF expr.k = "CompositeLit" THEN get_comp_value(g, typ, expr)
       ELSE RV(g, Unreachable, Nil)   \* unreachable!()
  ELSE value_from_basic_literal(g, typ, expr)

(***************************************************************************)
(* The visitor.                                                            *)
(***************************************************************************)

BinaryOpcode(op) ==
  CASE op = "LAND" -> "PUSH_FALSE"
    [] op = "LOR" -> "PUSH_TRUE"
    [] op \in {"ADD", "SUB", "MUL", "QUO", "REM", "AND", "OR", "XOR", "SHL", "SHR",
               "AND_NOT", "NOT", "EQL", "LSS", "GTR", "NEQ", "LEQ", "GEQ"} -> op
    [] OTHER -> ""   \* unreachable!()

UnaryOpcode(op) ==
  CASE op = "AND" -> "REF"
    [] op = "ADD" -> "UNARY_ADD"
    [] op = "SUB" -> "UNARY_SUB"
    [] op = "XOR" -> "UNARY_XOR"
    [] OTHER -> ""   \* unreachable!()

\* The walk of a node (parser crate: walk_expr, walk_stmt, walk_decl) calls
\* the visit of its kind, whose recursive visits walk the children.
RECURSIVE walk(_, _)

visit_expr(g, expr) == walk(g, expr)

visit_stmt(g, stmt) == walk(g, stmt)

visit_decl(g, decl) == walk(g, decl)

RECURSIVE visit_params(_, _, _, _), visit_values(_, _, _), visit_stmt_return(_, _, _)
RECURSIVE visit_stmt_list(_, _, _), gen_assign_lhs(_, _, _, _, _)
RECURSIVE visit_values_reversed(_, _, _)
RECURSIVE add_param_names(_, _, _), add_params(_, _, _)

visit_stmt_list(g, list, i) ==
  IF i > Len(list) THEN Ok(g)
  ELSE Then(visit_stmt(g, list[i]), LAMBDA g1 : visit_stmt_list(g1, list, i + 1))

visit_stmt_block(g, bstmt) == visit_stmt_list(g, bstmt.list, 1)

\* One local slot per declared name of a field; an unnamed field is one slot.
add_param_names(f, names, j) ==
  IF j > Len(names) THEN f
  ELSE add_param_names(add_local_f(f, names[j].ent), names, j + 1)

\* Function::add_params: the function with the slots added.
add_params(f, fields, i) ==
  IF i > Len(fields) THEN f
  ELSE add_params(IF Len(fields[i].names) = 0 THEN add_local_f(f, NoEnt)
                  ELSE add_param_names(f, fields[i].names, 1), fields, i + 1)

\* GosValue::new_function, then add_params for the results and the params.
new_function(g, typ, type_key) ==
  LET params == g.types[type_key].elems[1]
      variadic == Len(params) > 0 /\ g.types[params[Len(params)]].kind = "variadic"
      f0 == NewFunctionVal(g.current_pkg, type_key, variadic, FALSE)
      f1 == IF typ.results.k = "None" THEN f0 ELSE add_params(f0, typ.results.list, 1)
      f2 == add_params([f1 EXCEPT !.ret_count = f1.local_count], typ.params, 1)
  IN  [f2 EXCEPT !.param_count = f2.local_count - f1.local_count]

gen_func_def(g, typ, body) ==
  Bind(get_or_gen_type(g, typ), LAMBDA ftype :
    Let(Len(ftype.g.functions) + 1, LAMBDA fkey :
      \* process function body
      Bind(visit_stmt_block([ftype.g EXCEPT
                               !.functions = Append(@, new_function(ftype.g, typ, ftype.v.v)),
                               !.func_stack = Append(@, fkey)], body),
           LAMBDA b :
             \* it will not be executed if it's redundant
             RV([emit_return_f(b.g, fkey) EXCEPT !.func_stack = SubSeq(@, 1, Len(@) - 1)],
                "Ok", fkey))))

\* emit a LOAD of a value added to the current function's constants
load_const(g, val) ==
  Let(add_const(g, NoEnt, val), LAMBDA c : Ok(emit_load(c.g, c.idx)))

visit_expr_ident(g, ident) ==
  Bind(resolve_ident(g, ident), LAMBDA index : Ok(emit_load(index.g, index.v)))

visit_expr_basic_lit(g, blit) ==
  Bind(get_const_value(g, None, blit), LAMBDA val : load_const(val.g, val.v))

\* Add function as a const and then generate a closure of it.
visit_expr_func_lit(g, flit) ==
  Bind(gen_func_def(g, flit.typ, flit.body), LAMBDA fkey :
    Then(load_const(fkey.g, Val("Function", fkey.v)), LAMBDA g1 : Ok(emit_new(g1))))

visit_expr_composit_lit(g, clit) ==
  IF clit.typ.k = "None" THEN Panic(g, UnwrapNone)   \* clit.typ.as_ref().unwrap()
  ELSE Bind(get_comp_value(g, clit.typ, clit), LAMBDA val : load_const(val.g, val.v))

visit_expr_selector(g, ident) == Ok(emit_load_field(gen_push_ident_str(g, ident)))

visit_expr_index(g) == Ok(emit_load_field(g))

visit_expr_slice(g, low, high, max) ==
  Then(IF low.k = "None" THEN Ok(emit_code(g, "PUSH_NIL")) ELSE visit_expr(g, low),
       LAMBDA g1 :
  Then(IF high.k = "None" THEN Ok(emit_code(g1, "PUSH_NIL")) ELSE visit_expr(g1, high),
       LAMBDA g2 :
    IF max.k = "None" THEN Ok(emit_code(g2, "SLICE"))
    ELSE Then(visit_expr(g2, max), LAMBDA g3 : Ok(emit_code(g3, "SLICE_FULL")))))

\* The outcome of a visit whose Result is dropped: only a panic ends the walk.
Dropped(r, F(_)) == IF IsPanic(r.r) THEN Res(r.g, r.r) ELSE F(r.g)

\* params.iter().map(|e| self.visit_expr(e)).count(): every argument is
\* visited, left to right, and the Result of each visit is dropped.  The
\* iteration over params[lo..hi] is split in halves, which visits the same
\* arguments in the same order.
visit_params(g, params, lo, hi) ==
  IF lo > hi THEN Ok(g)
  ELSE IF lo = hi THEN Dropped(visit_expr(g, params[lo]), Ok)
  ELSE Then(visit_params(g, params, lo, (lo + hi) \div 2),
            LAMBDA g1 : visit_params(g1, params, (lo + hi) \div 2 + 1, hi))

visit_expr_call(g, func, params, ellipsis) ==
  IF func.k = "Ident" /\ func.ent = NoEnt
  THEN \* check if this is a built in function first
       IF built_in_func_index(func.name) # 0
       THEN Then(visit_params(g, params, 1, Len(params)), LAMBDA g1 :
              Let(built_in_funcs[built_in_func_index(func.name)], LAMBDA bf :
                IF bf.variadic
                THEN Ok(emit_data(emit_code(g1, bf.opcode),
                                  IF ellipsis THEN 0   \* do not pack params if there is ellipsis
                                  ELSE AsI16(bf.params_count - 1 - Len(params))))
                ELSE Ok(emit_code(g1, bf.opcode))))
       ELSE Err(error_undefined(g, func.pos, func.name))
  ELSE \* normal goscript function
       Then(visit_expr(g, func), LAMBDA g1 :
         Then(visit_params(emit_pre_call(g1), params, 1, Len(params)), LAMBDA g2 :
           Ok(emit_call(g2, ellipsis))))

visit_expr_star(g) == Ok(emit_code(g, "DEREF"))

visit_expr_unary(g, op) ==
  IF UnaryOpcode(op) = "" THEN Panic(g, Unreachable) ELSE Ok(emit_code(g, UnaryOpcode(op)))

\* The jump of a short-circuit operator, with its placeholder.
emit_short_circuit(g, op) ==
  CASE op = "LAND" -> emit_data(emit_code(g, "JUMP_IF_NOT"), 0)
    [] op = "LOR" -> emit_data(emit_code(g, "JUMP_IF"), 0)
    [] OTHER -> g

\* func.code[i - 1] = CodeData::Data(diff as OpIndex), diff = len - i - 1
patch_short_circuit(g, i) == set_code_data(g, i - 1, AsI16(code_len(g) - i - 1))

visit_expr_binary(g, left, op, right) ==
  Then(visit_expr(g, left), LAMBDA g1 :
    IF BinaryOpcode(op) = "" THEN Panic(g1, Unreachable)
    ELSE \* handles short circuit
         Let(emit_short_circuit(g1, op), LAMBDA g2 :
           Then(visit_expr(g2, right), LAMBDA g3 :
             IF op \in {"LAND", "LOR"}
             THEN Ok(patch_short_circuit(
                       emit_code(emit_data(emit_code(g3, "JUMP"), 1), BinaryOpcode(op)),
                       code_len(g2)))
             ELSE Ok(emit_code(g3, BinaryOpcode(op))))))

visit_expr_array_type(g, arr) ==
  Bind(get_or_gen_type(g, arr), LAMBDA val : load_const(val.g, val.v))

(***************************************************************************)
(* Assignment lowering.                                                    *)
(***************************************************************************)
SimpleOp(token) ==
  CASE token \in {"ADD_ASSIGN", "INC"} -> "ADD"
    [] token \in {"SUB_ASSIGN", "DEC"} -> "SUB"
    [] token = "MUL_ASSIGN" -> "MUL"
    [] token = "QUO_ASSIGN" -> "QUO"
    [] token = "REM_ASSIGN" -> "REM"
    [] token = "AND_ASSIGN" -> "AND"
    [] token = "OR_ASSIGN" -> "OR"
    [] token = "XOR_ASSIGN" -> "XOR"
    [] token = "SHL_ASSIGN" -> "SHL"
    [] token = "SHR_ASSIGN" -> "SHR"
    [] token = "AND_NOT_ASSIGN" -> "AND_NOT"
    [] OTHER -> ""

\* One left-hand side: its operands are visited, its LeftHandSide returned.
gen_lhs(g, expr, is_def) ==
  CASE expr.k = "Ident" ->
         Bind(add_local_or_resolve_ident(g, expr, is_def), LAMBDA idx :
           RV(idx.g, "Ok", Primitive(idx.v)))
    [] expr.k = "Index" ->
         Bind(Then(visit_expr(g, expr.x), LAMBDA g1 : visit_expr(g1, expr.index)), LAMBDA r :
           RV(r.g, "Ok", IndexSelExpr(0)))   \* the true index will be calculated later
    [] expr.k = "Selector" ->
         Bind(visit_expr(g, expr.x), LAMBDA r :
           RV(gen_push_ident_str(r.g, expr.sel), "Ok", IndexSelExpr(0)))
    [] expr.k = "Star" ->
         Bind(visit_expr(g, expr.x), LAMBDA r : RV(r.g, "Ok", Deref(0)))
    [] OTHER -> RV(g, Unreachable, Deref(0))   \* unreachable!()

\* The left-hand sides, in order; the first failure ends the walk.
gen_assign_lhs(g, lhs_exprs, is_def, i, acc) ==
  IF i > Len(lhs_exprs) THEN RV(g, "Ok", acc)
  ELSE Bind(gen_lhs(g, lhs_exprs[i], is_def), LAMBDA one :
         gen_assign_lhs(one.g, lhs_exprs, is_def, i + 1, Append(acc, one.v)))

\* The values visited from the last to the first.
visit_values_reversed(g, values, i) ==
  IF i > Len(values) THEN Ok(g)
  ELSE Then(visit_expr(g, values[Len(values) + 1 - i]),
            LAMBDA g1 : visit_values_reversed(g1, values, i + 1))

\* for val in values.iter() { self.visit_expr(val)?; }
visit_values(g, values, i) ==
  IF i > Len(values) THEN Ok(g)
  ELSE Then(visit_expr(g, values[i]), LAMBDA g1 : visit_values(g1, values, i + 1))

\* Stack words pushed to prepare one left-hand side.
lhs_words(l) ==
  CASE l.k = "Primitive" -> 0
    [] l.k = "IndexSelExpr" -> 2
    [] l.k = "Deref" -> 1

RECURSIVE total_lhs_val(_, _), emit_stores(_, _, _, _, _), emit_pops(_, _), load_defaults(_, _, _)

total_lhs_val(lhs, i) ==
  IF i > Len(lhs) THEN 0 ELSE lhs_words(lhs[i]) + total_lhs_val(lhs, i + 1)

\* A value offset that counts the targets from 1.
store_val_index_from_one(i, total_rhs_val) == i + 1 - total_rhs_val

\* let val_index = i as i16 - total_rhs_val, i counted from 0
store_val_index(i, total_rhs_val) == i - total_rhs_val

\* One STORE per left-hand side; i is 1-based, so val_index is that of i - 1.
emit_stores(g, lhs, i, total_rhs_val, current_indexing_index) ==
  IF i > Len(lhs) THEN g
  ELSE LET l == lhs[i]
           val_index == store_val_index(i - 1, total_rhs_val)
       IN  CASE l.k = "Primitive" ->
                  emit_stores(emit_store(g, l, val_index, ""), lhs, i + 1,
                              total_rhs_val, current_indexing_index)
             [] l.k = "IndexSelExpr" ->
                  \* the lhs of IndexSelExpr takes two spots
                  emit_stores(emit_store(g, IndexSelExpr(current_indexing_index), val_index, ""),
                              lhs, i + 1, total_rhs_val, current_indexing_index + 2)
             [] l.k = "Deref" ->
                  emit_stores(emit_store(g, Deref(current_indexing_index), val_index, ""),
                              lhs, i + 1, total_rhs_val, current_indexing_index + 1)

emit_pops(g, n) == IF n <= 0 THEN g ELSE emit_pops(emit_pop(g), n - 1)

\* define without values: LOAD the type's zero value once per target.
load_defaults(g, val, n) ==
  IF n <= 0 THEN g
  ELSE LET c == add_const(g, NoEnt, val)
       IN  load_defaults(emit_load(c.g, c.idx), val, n - 1)

NoMarker == -1

\* handle the right hand side; yields the range marker, if any
gen_rhs(g, lhs, values, typ, range, pos) ==
  IF range.k # "None"
  THEN \* the range statement
       Bind(visit_expr(g, range), LAMBDA r :
         Let(emit_data(emit_code(r.g, "PUSH_IMM"), -1), LAMBDA g1 :
           RV(emit_data(emit_range(g1), 0), "Ok", code_len(g1))))   \* placeholder
  ELSE IF Len(values) = Len(lhs)
  THEN \* define or assign with values
       Bind(visit_values(g, values, 1), LAMBDA r : RV(r.g, "Ok", NoMarker))
  ELSE IF Len(values) = 0
  THEN \* define without values
       IF typ.k = "None" THEN RV(g, UnwrapNone, NoMarker)   \* typ.as_ref().unwrap()
       ELSE Bind(get_type_default(g, typ), LAMBDA val :
              RV(load_defaults(val.g, val.v, Len(lhs)), "Ok", NoMarker))
  ELSE IF Len(values) = 1
  THEN \* define or assign with function call on the right
       IF values[1].k = "Call"
       THEN Bind(visit_expr(g, values[1]), LAMBDA r : RV(r.g, "Ok", NoMarker))
       ELSE RV(error_mismatch(g, pos, Len(lhs), Len(values)), "Err", NoMarker)
  ELSE RV(error_mismatch(g, pos, Len(lhs), Len(values)), "Err", NoMarker)

\* A total that forgets the words pushed to prepare the targets.
total_val_values_only(lhs) == Len(lhs)

\* total_val = total_lhs_val + total_rhs_val, total_rhs_val = lhs.len()
total_val(lhs) == total_lhs_val(lhs, 1) + Len(lhs)

gen_assign_def_var(g, lhs, values, typ, range, pos) ==
  Bind(gen_rhs(g, lhs, values, typ, range, pos), LAMBDA rhs :
    \* now the values should be on stack, generate code to set them to the lhs
    RV(emit_pops(emit_stores(rhs.g, lhs, 1, Len(lhs), -total_val(lhs)), total_val(lhs)),
       "Ok", rhs.v))

gen_op_assign(g, left, op, right) ==
  Then(IF right.k # "None" THEN visit_expr(g, right)
       ELSE \* it's inc/dec
            Ok(emit_data(emit_code(g, "PUSH_IMM"), 1)),
       LAMBDA g1 :
         Ok(emit_pop(
           CASE left.k = "Primitive" -> emit_store(g1, left, -1, op)
             [] left.k = "IndexSelExpr" ->
                  \* stack (bottom to top): [... target, index, value]
                  emit_store(g1, IndexSelExpr(-3), -1, op)
             [] left.k = "Deref" ->
                  \* stack (bottom to top): [... target, value]
                  emit_store(g1, Deref(-2), -1, op))))

\* entrance for all assign related stmts
gen_assign(g, token, lhs_exprs, rhs_exprs, range) ==
  IF Len(lhs_exprs) = 0 THEN RV(g, IndexOOB, NoMarker)   \* lhs_exprs[0]
  ELSE Bind(gen_assign_lhs(g, lhs_exprs, token = "DEFINE", 1, <<>>), LAMBDA lhs :
         IF SimpleOp(token) # ""
         THEN IF token \in {"INC", "DEC"}
              THEN Bind(gen_op_assign(lhs.g, lhs.v[1], SimpleOp(token), None), LAMBDA r :
                     RV(r.g, "Ok", NoMarker))
              ELSE IF Len(lhs_exprs) # 1 \/ Len(rhs_exprs) # 1
              THEN RV(lhs.g, AssertFailed, NoMarker)   \* assert_eq!
              ELSE Bind(gen_op_assign(lhs.g, lhs.v[1], SimpleOp(token), rhs_exprs[1]),
                        LAMBDA r : RV(r.g, "Ok", NoMarker))
         ELSE IF token \in {"ASSIGN", "DEFINE"}
         THEN gen_assign_def_var(lhs.g, lhs.v, rhs_exprs, None, range, PosOf(lhs_exprs[1]))
         ELSE RV(lhs.g, Unreachable, NoMarker))   \* unreachable!()

(***************************************************************************)
(* Statement lowering and control flow.                                    *)
(***************************************************************************)
\* i is 1-based: result i is stored into return slot LocalVar(i - 1).
visit_stmt_return(g, results, i) ==
  IF i > Len(results) THEN Ok(emit_return(g))
  ELSE Then(visit_expr(g, results[i]), LAMBDA g1 :
         visit_stmt_return(emit_pop(emit_store(g1, Primitive(LocalVar(i - 1)), -1, "")),
                           results, i + 1))

\* An offset that counts from the jump's data slot, not from the word after it.
arm_offset_from_slot(len, marker) == len - marker + 1

\* func.code.len() - marker: the distance from the word that follows the
\* jump's data slot to the end of the code.
arm_offset(len, marker) == len - marker

visit_stmt_if(g, ifstmt) ==
  Then(IF ifstmt.init.k # "None" THEN visit_stmt(g, ifstmt.init) ELSE Ok(g), LAMBDA g0 :
  Then(visit_expr(g0, ifstmt.cond), LAMBDA g1 :
    LET \* place holder, to be set later
        g2 == emit_data(emit_code(g1, "JUMP_IF_NOT"), 0)
        top_marker == code_len(g2)
    IN  Then(visit_stmt_block(g2, ifstmt.body), LAMBDA g3 :
          LET has_els == ifstmt.els.k # "None"
              g4 == IF has_els THEN emit_data(emit_code(g3, "JUMP"), 0) ELSE g3
              marker_if_arm_end == code_len(g4)
              \* set the correct else jump target
              offset == arm_offset(code_len(g4), top_marker)
          IN  IF ~FitsI16(offset) THEN Panic(g4, TryFromErr)   \* i16::try_from(..).unwrap()
              ELSE LET g5 == set_code_data(g4, top_marker - 1, offset)
                   IN  IF ~has_els THEN Ok(g5)
                       ELSE Then(visit_stmt(g5, ifstmt.els), LAMBDA g6 :
                              \* set the correct if_arm_end jump target
                              LET offset2 == arm_offset(code_len(g6), marker_if_arm_end)
                              IN  IF ~FitsI16(offset2) THEN Panic(g6, TryFromErr)
                                  ELSE Ok(set_code_data(g6, marker_if_arm_end - 1, offset2))))))

\* A backward offset that forgets the JUMP's data slot.
back_offset_without_slot(len, top_marker) == -(len - top_marker)

\* -((func.code.len() + 1 - top_marker) as isize): from the word that follows
\* the data slot about to be emitted back to the marker.
back_offset(len, top_marker) == -(len + 1 - top_marker)

visit_stmt_for(g, fstmt) ==
  Then(IF fstmt.init.k # "None" THEN visit_stmt(g, fstmt.init) ELSE Ok(g), LAMBDA g0 :
    LET top_marker == code_len(g0)
        has_cond == fstmt.cond.k # "None"
        c == IF has_cond
             THEN Then(visit_expr(g0, fstmt.cond), LAMBDA g1 :
                    \* place holder, to be set later
                    Ok(emit_data(emit_code(g1, "JUMP_IF_NOT"), 0)))
             ELSE Ok(g0)
    IN  Then(c, LAMBDA g2 :
          LET out_marker == code_len(g2)
          IN  Then(visit_stmt_block(g2, fstmt.body), LAMBDA g3 :
              Then(IF fstmt.post.k # "None" THEN visit_stmt(g3, fstmt.post) ELSE Ok(g3), LAMBDA g4 :
                \* jump to the top
                LET g5 == emit_code(g4, "JUMP")
                    offset == back_offset(code_len(g5), top_marker)
                IN  IF ~FitsI16(offset) THEN Panic(g5, TryFromErr)   \* i16::try_from(..).unwrap()
                    ELSE LET g6 == emit_data(g5, offset)
                             \* set the correct else jump out target
                             offset2 == code_len(g6) - out_marker
                         IN  IF ~has_cond THEN Ok(g6)
                             ELSE IF ~FitsI16(offset2) THEN Panic(g6, TryFromErr)
                             ELSE Ok(set_code_data(g6, out_marker - 1, offset2))))))

\* An exit offset that counts from RANGE, not from the word after its slot.
range_end_offset_from_range(len, marker) == len - marker

\* func.code.len() - (marker + 2): from the word that follows RANGE's data
\* slot to the end of the code.
range_end_offset(len, marker) == len - (marker + 2)

\* The range loop after its head: body, backward jump, exit offset.
gen_range_body(g, marker, body) ==
  Then(visit_stmt_block(g, body), LAMBDA g1 :
    \* jump to the top
    LET g2 == emit_code(g1, "JUMP")
        offset == -(code_len(g2) + 1 - marker)
    IN  IF ~FitsI16(offset) THEN Panic(g2, TryFromErr)   \* i16::try_from(..).unwrap()
        ELSE LET g3 == emit_data(g2, offset)
                 \* now tell Opcode::RANGE where to jump after it's done
                 end_offset == range_end_offset(code_len(g3), marker)
             IN  IF ~FitsI16(end_offset) THEN Panic(g3, TryFromErr)
                 ELSE Ok(set_code_data(g3, marker + 1, end_offset)))

visit_stmt_range(g, rstmt) ==
  Bind(gen_assign(g, rstmt.tok,
                  << IF rstmt.key.k # "None" THEN rstmt.key ELSE blank_ident,
                     IF rstmt.val.k # "None" THEN rstmt.val ELSE blank_ident >>,
                  <<>>, rstmt.x),
       LAMBDA m :
         IF m.v = NoMarker THEN Panic(m.g, UnwrapNone)   \* .unwrap()
         ELSE gen_range_body(m.g, m.v, rstmt.body))

visit_stmt_incdec(g, idcstmt) ==
  Bind(gen_assign(g, idcstmt.tok, <<idcstmt.x>>, <<>>, None), LAMBDA r : Ok(r.g))

visit_stmt_assign(g, stmt) ==
  Bind(gen_assign(g, stmt.tok, stmt.lhs, stmt.rhs, None), LAMBDA r : Ok(r.g))

(***************************************************************************)
(* Declarations, functions and packages.                                   *)
(***************************************************************************)
RECURSIVE def_var_names(_, _, _, _), gen_def_const_vals(_, _, _, _, _)
RECURSIVE visit_specs(_, _, _), visit_decls(_, _, _)

\* The targets of a var spec: every name is defined.
def_var_names(g, names, i, acc) ==
  IF i > Len(names) THEN RV(g, "Ok", acc)
  ELSE Bind(add_local_or_resolve_ident(g, names[i], TRUE), LAMBDA idx :
         def_var_names(idx.g, names, i + 1, Append(acc, Primitive(idx.v))))

gen_def_const_vals(g, names, values, typ, i) ==
  IF i > Len(names) THEN Ok(g)
  ELSE Bind(value_from_basic_literal(g, typ, values[i]), LAMBDA val :
         IF names[i].ent = NoEnt THEN Panic(val.g, UnwrapNone)   \* ident_key.unwrap()
         ELSE gen_def_const_vals(current_func_add_const_def(val.g, names[i].ent, val.v),
                                 names, values, typ, i + 1))

gen_def_const(g, names, values, typ) ==
  IF Len(names) # Len(values)
  THEN Err(error_mismatch(g, names[1].pos, Len(names), Len(values)))
  ELSE gen_def_const_vals(g, names, values, typ, 1)

visit_spec(g, tok, spec) ==
  CASE spec.k = "Import" -> Panic(g, Unimplemented)   \* unimplemented!()
    [] spec.k = "Type" ->
         Bind(get_or_gen_type(g, spec.typ), LAMBDA typ :
           IF spec.name.ent = NoEnt THEN Panic(typ.g, UnwrapNone)   \* unwrap()
           ELSE Ok(current_func_add_const_def(typ.g, spec.name.ent, typ.v)))
    [] spec.k = "Value" ->
         IF tok = "VAR"
         THEN Bind(def_var_names(g, spec.names, 1, <<>>), LAMBDA lhs :
                Bind(gen_assign_def_var(lhs.g, lhs.v, spec.values, spec.typ, None,
                                        spec.names[1].pos),
                     LAMBDA a : Ok(a.g)))
         ELSE IF tok # "CONST" THEN Panic(g, AssertFailed)   \* assert!
         ELSE gen_def_const(g, spec.names, spec.values, spec.typ)

visit_specs(g, gdecl, i) ==
  IF i > Len(gdecl.specs) THEN Ok(g)
  ELSE Then(visit_spec(g, gdecl.tok, gdecl.specs[i]), LAMBDA g1 :
         visit_specs(g1, gdecl, i + 1))

visit_stmt_decl_gen(g, gdecl, i) == visit_specs(g, gdecl, i)

\* A test that takes every function for main.
is_main_any(name) == name = name

\* ident.name == "main"
is_main(name) == name = "main"

\* typ.add_struct_member(name, fval), on the boxed type's element if boxed
add_struct_member(g, type_key, name, fval) ==
  LET t == g.types[type_key]
      key == IF t.kind = "boxed" THEN t.elems[1] ELSE type_key
  IN  [g EXCEPT !.types[key].members = Append(@, [name |-> name, val |-> fval])]

\* pkg.add_member(entity, fval) and, for main, pkg.set_main_func(index)
add_func_member(g, decl, fval) ==
  LET index == Len(g.pkgs[g.current_pkg].members)
      g1 == [g EXCEPT !.pkgs[g.current_pkg] = add_member_p(@, decl.name.ent, fval)]
  IN  IF is_main(decl.name.name)
      THEN [g1 EXCEPT !.pkgs[g.current_pkg] = set_main_func_p(@, index)]
      ELSE g1

visit_stmt_decl_func(g, decl) ==
  IF decl.body.k = "None" THEN Panic(g, Unimplemented)   \* unimplemented!()
  ELSE IF decl.recv.k # "None"
  THEN \* this is a struct method: insert receiver at the beginning of the params
       Bind(gen_func_def(g, FuncType(decl.recv.list \o decl.typ.params, decl.typ.results),
                         decl.body),
            LAMBDA fval :
              IF Len(decl.recv.list) = 0 THEN Panic(fval.g, IndexOOB)   \* self_ident.list[0]
              ELSE Bind(get_or_gen_type(fval.g, decl.recv.list[1].typ), LAMBDA type_val :
                     IF type_val.v.t # "Type" THEN Panic(type_val.g, Unreachable)
                     ELSE Ok(add_struct_member(type_val.g, type_val.v.v, decl.name.name,
                                               Val("Function", fval.v)))))
  ELSE Bind(gen_func_def(g, decl.typ, decl.body), LAMBDA fval :
         IF decl.name.ent = NoEnt THEN Panic(fval.g, UnwrapNone)   \* entity_key().unwrap()
         ELSE Ok(add_func_member(fval.g, decl, Val("Function", fval.v))))

\* walk_expr, walk_stmt, walk_decl (parser crate): dispatch on the node kind;
\* for selector, index, slice, star, unary and paren the operand is walked
\* before the visit.
walk(g, node) ==
  CASE node.k = "Ident" -> visit_expr_ident(g, node)
    [] node.k = "BasicLit" -> visit_expr_basic_lit(g, node)
    [] node.k = "FuncLit" -> visit_expr_func_lit(g, node)
    [] node.k = "CompositeLit" -> visit_expr_composit_lit(g, node)
    [] node.k = "Paren" -> visit_expr(g, node.x)
    [] node.k = "Selector" ->
         Then(visit_expr(g, node.x), LAMBDA g1 : visit_expr_selector(g1, node.sel))
    [] node.k = "Index" ->
         Then(Then(visit_expr(g, node.x), LAMBDA g1 : visit_expr(g1, node.index)),
              LAMBDA g2 : visit_expr_index(g2))
    [] node.k = "Slice" ->
         Then(visit_expr(g, node.x),
              LAMBDA g1 : visit_expr_slice(g1, node.low, node.high, node.max))
    [] node.k = "Call" -> visit_expr_call(g, node.func, node.args, node.ellipsis)
    [] node.k = "Star" -> Then(visit_expr(g, node.x), LAMBDA g1 : visit_expr_star(g1))
    [] node.k = "Unary" ->
         Then(visit_expr(g, node.x), LAMBDA g1 : visit_expr_unary(g1, node.op))
    [] node.k = "Binary" -> visit_expr_binary(g, node.x, node.op, node.y)
    [] node.k = "Array" -> visit_expr_array_type(g, node)
    \* statements
    [] node.k = "Expr" -> visit_expr(g, node.x)
    [] node.k = "Assign" -> visit_stmt_assign(g, node)
    [] node.k = "IncDec" -> visit_stmt_incdec(g, node)
    [] node.k = "Return" -> visit_stmt_return(g, node.results, 1)
    [] node.k = "Block" -> visit_stmt_block(g, node)
    [] node.k = "If" -> visit_stmt_if(g, node)
    [] node.k = "For" -> visit_stmt_for(g, node)
    [] node.k = "Range" -> visit_stmt_range(g, node)
    [] node.k = "Decl" -> visit_decl(g, node.decl)
    [] node.k = "Empty" -> Ok(g)
    \* declarations
    [] node.k = "Gen" -> visit_stmt_decl_gen(g, node, 1)
    [] node.k = "FuncDecl" -> visit_stmt_decl_func(g, node)
    \* type assertion, key-value, map, channel, function, struct, interface
    \* and ellipsis expressions; labeled, send, go, defer, branch, switch,
    \* type switch, select, case and comm statements: unimplemented!()
    [] OTHER -> Panic(g, Unimplemented)

visit_decls(g, decls, i) ==
  IF i > Len(decls) THEN Ok(g)
  ELSE Then(visit_decl(g, decls[i]), LAMBDA g1 : visit_decls(g1, decls, i + 1))

\* A package index that counts from 1.
package_index_from_one(packages) == AsI16(Len(packages))

\* let index = self.packages.len() as i16 - 1, the package being pushed
package_index(packages) == AsI16(Len(packages)) - 1

gen(g, f) ==
  LET pkey == Len(g.pkgs) + 1
      fkey == Len(g.functions) + 1
      ctor == NewFunctionVal(pkey, default_closure_type.v, FALSE, TRUE)
      \* the 0th member is the constructor
      pkg == add_member_p(NewPackageVal(f.name), NoEnt, Val("Function", fkey))
      index == package_index(Append(g.packages, pkey))
      g1 == [g EXCEPT !.pkgs = Append(@, pkg),
                      !.functions = Append(@, ctor),
                      !.packages = Append(@, pkey),
                      !.package_indices = (f.name :> index) @@ @,
                      !.current_pkg = pkey,
                      !.func_stack = Append(@, fkey)]
  IN  Then(visit_decls(g1, f.decls, 1), LAMBDA g2 :
        LET g3 == emit_return_init_pkg_f(g2, fkey, index)
        IN  Ok([g3 EXCEPT !.func_stack = SubSeq(@, 1, Len(@) - 1)]))

\* generate the entry function for ByteCode: import the 0th package and call
\* its main function.
gen_entry(g) ==
  LET fkey == Len(g.functions) + 1
      g0 == [g EXCEPT !.functions =
               Append(@, NewFunctionVal(NullKey, default_closure_type.v, FALSE, FALSE))]
      g1 == emit_import_f(g0, fkey, 0)
      g2 == emit_data_f(emit_code_f(g1, fkey, "PUSH_IMM"), fkey, -1)
      g3 == emit_code_f(emit_code_f(emit_code_f(g2, fkey, "LOAD_FIELD"), fkey, "PRE_CALL"),
                        fkey, "CALL")
  IN  RV(emit_return_f(g3, fkey), "Ok", fkey)

into_byte_code(g) ==
  LET e == gen_entry(g)
  IN  [functions |-> e.g.functions, pkgs |-> e.g.pkgs, strings |-> e.g.strings,
       types |-> e.g.types, package_indices |-> e.g.package_indices,
       packages |-> e.g.packages, entry |-> e.v]

(***************************************************************************)
(* Source programs.  The generator's input is the AST the parser built;    *)
(* the programs below are the inputs the model draws from.                 *)
(***************************************************************************)
IntT == Ident("int", NoEnt, 0)

X == Ident("x", "x", 11)

Y == Ident("y", "y", 12)

A == Ident("a", "a", 13)

P == Ident("p", "p", 14)

GV == Ident("gv", "gv", 15)

\* A name the parser could not resolve: no entity.
U == Ident("u", NoEnt, 16)

TrueId == Ident("true", NoEnt, 17)

FalseId == Ident("false", NoEnt, 18)

MainId == Ident("main", "main", 19)

FId == Ident("f", "f", 20)

One == BasicLit("INT", 1, <<>>, 21)

Two == BasicLit("INT", 2, <<>>, 22)

\* var gv = 1
VarGV == GenDecl("VAR", <<ValueSpec(<<GV>>, None, <<One>>)>>)

\* (x, y int, a []int, p *int)
StdParams ==
  << Field(<<X, Y>>, IntT), Field(<<A>>, ArrayType(None, IntT)), Field(<<P>>, Star(IntT)) >>

\* func <name>(x, y int, a []int, p *int) { stmts }
FuncOf(name, stmts) == FuncDecl(name, None, FuncType(StdParams, None), BlockStmt(stmts))

\* package p; var gv = 1; func main(x, y int, a []int, p *int) { stmts }
Prog(stmts) == File("p", <<VarGV, FuncOf(MainId, stmts)>>)

\* func <name>() { stmts }
Func0(name, stmts) == FuncDecl(name, None, FuncType(<<>>, None), BlockStmt(stmts))

Z == Ident("z", "z", 23)

W == Ident("w", "w", 24)

K == Ident("k", "k", 25)

V == Ident("v", "v", 26)

T == Ident("T", "T", 27)

C == Ident("c", "c", 28)

D == Ident("d", "d", 29)

Fld == Ident("fld", NoEnt, 30)

Len_ == Ident("len", NoEnt, 31)

\* The number of arguments of the call used as a long operand.
BigLen == 16384

\* x(y, y, ..., y): 2 * BigLen + 4 code words
BigExpr == Call(X, [i \in 1..BigLen |-> Y], FALSE)

BigBody == BlockStmt(<<AssignStmt(<<X>>, "ASSIGN", <<BigExpr>>)>>)

Assign(l, r) == AssignStmt(l, "ASSIGN", r)

Define(l, r) == AssignStmt(l, "DEFINE", r)

VarStmt(names, typ, values) == DeclStmt(GenDecl("VAR", <<ValueSpec(names, typ, values)>>))

ConstStmt(names, typ, values) == DeclStmt(GenDecl("CONST", <<ValueSpec(names, typ, values)>>))

\* func() { stmts }
Lit(stmts) == FuncLit(FuncType(<<>>, None), BlockStmt(stmts))

\* x++ as the body of a loop
IncX == BlockStmt(<<IncDecStmt(X, "INC")>>)

Programs ==
  << \* 1..9: plain assignments, short declarations, var declarations
     Prog(<<>>),
     Prog(<<Assign(<<X>>, <<Binary(X, "ADD", Y)>>)>>),
     Prog(<<Assign(<<X, Index(A, One)>>, <<One, Two>>)>>),
     Prog(<<Assign(<<Index(A, One), Star(P), X, Selector(A, Fld)>>, <<One, Two, Y, X>>)>>),
     Prog(<<Define(<<Z, W>>, <<One, Two>>)>>),
     Prog(<<VarStmt(<<Z>>, IntT, <<>>)>>),
     Prog(<<VarStmt(<<Z, W>>, None, <<One, Two>>)>>),
     Prog(<<Define(<<Z, W>>, <<Call(X, <<>>, FALSE)>>)>>),
     Prog(<<Assign(<<blank_ident, Star(P)>>, <<X, Y>>)>>),
     \* 10..15: numbers of targets and values that do not match
     Prog(<<VarStmt(<<Z, W>>, None, <<One>>)>>),
     Prog(<<Assign(<<X, Y>>, <<One>>)>>),
     Prog(<<Assign(<<X>>, <<One, Two>>)>>),
     Prog(<<ConstStmt(<<C, D>>, None, <<One>>)>>),
     Prog(<<ConstStmt(<<C>>, None, <<One>>), Assign(<<X>>, <<C>>)>>),
     Prog(<<ExprStmt(Call(Len_, <<Lit(<<VarStmt(<<Z, W>>, None, <<One>>)>>)>>, FALSE))>>),
     \* 16..19: a name without entity
     Prog(<<ExprStmt(Call(Len_, <<U>>, FALSE))>>),
     Prog(<<ExprStmt(Call(X, <<U>>, FALSE))>>),
     Prog(<<ExprStmt(U)>>),
     Prog(<<Assign(<<X>>, <<U>>)>>),
     \* 20..22: calls of package-level functions
     File("p", <<Func0(MainId, <<ExprStmt(Call(MainId, <<>>, FALSE))>>)>>),
     File("p", <<Func0(MainId, <<ExprStmt(Call(FId, <<>>, FALSE))>>), Func0(FId, <<>>)>>),
     File("p", <<Func0(FId, <<>>), Func0(MainId, <<ExprStmt(Call(FId, <<>>, FALSE))>>)>>),
     \* 23..30: control flow, with short and with long bodies and operands
     Prog(<<IfStmt(None, TrueId, BigBody, None)>>),
     Prog(<<ForStmt(None, TrueId, None, BigBody)>>),
     Prog(<<RangeStmt(K, V, "DEFINE", A, BigBody)>>),
     Prog(<<Assign(<<X>>, <<Binary(TrueId, "LAND", BigExpr)>>)>>),
     Prog(<<Assign(<<X>>, <<Binary(FalseId, "LOR", BigExpr)>>)>>),
     Prog(<<IfStmt(None, TrueId, IncX, IncX)>>),
     Prog(<<ForStmt(Assign(<<X>>, <<One>>), Binary(X, "LSS", Y), IncDecStmt(X, "INC"), IncX)>>),
     Prog(<<RangeStmt(K, V, "DEFINE", A, IncX)>>),
     \* 31..34: short-circuit operators
     Prog(<<Assign(<<X>>, <<Binary(X, "LAND", Y)>>)>>),
     Prog(<<Assign(<<X>>, <<Binary(X, "LOR", Y)>>)>>),
     Prog(<<Assign(<<X>>, <<Binary(Paren(Binary(X, "LAND", Y)), "LOR",
                                   Paren(Binary(Y, "LAND", Binary(X, "EQL", One))))>>)>>),
     Prog(<<Assign(<<X>>, <<Binary(X, "LAND", Paren(Binary(Y, "LOR", Binary(X, "LAND", Y))))>>)>>),
     \* 35..41: compound assignments and inc/dec statements
     Prog(<<AssignStmt(<<X>>, "ADD_ASSIGN", <<One>>)>>),
     Prog(<<AssignStmt(<<Index(A, One)>>, "ADD_ASSIGN", <<One>>)>>),
     Prog(<<IncDecStmt(Index(A, One), "INC")>>),
     Prog(<<AssignStmt(<<Star(P)>>, "SUB_ASSIGN", <<Y>>)>>),
     Prog(<<IncDecStmt(X, "DEC")>>),
     Prog(<<AssignStmt(<<Selector(A, Fld)>>, "MUL_ASSIGN", <<Two>>)>>),
     Prog(<<IncDecStmt(Star(P), "INC")>>),
     \* 42..46: the rest of the statements
     Prog(<<ReturnStmt(<<>>)>>),
     Prog(<<Define(<<Z>>, <<Lit(<<Assign(<<X>>, <<One>>)>>)>>)>>),
     Prog(<<OtherStmt("Go", 40)>>),
     Prog(<<Assign(<<GV>>, <<Unary("SUB", X)>>)>>),
     Prog(<<AssignStmt(<<X, Y>>, "ADD_ASSIGN", <<One>>)>>) >>

\* Files of several packages: main with and without receiver, files without
\* main, a file that does not compile.
Files ==
  << File("p", <<GenDecl("TYPE", <<TypeSpec(T, StructType(<<>>))>>),
                 FuncDecl(MainId, FieldList(<<Field(<<X>>, T)>>), FuncType(<<>>, None),
                          BlockStmt(<<>>))>>),
     File("p", <<Func0(FId, <<>>)>>),
     File("q", <<VarGV, Func0(FId, <<>>), Func0(MainId, <<>>)>>),
     File("q", <<GenDecl("TYPE", <<TypeSpec(T, StructType(<<>>))>>),
                 FuncDecl(FId, FieldList(<<Field(<<X>>, Star(T))>>), FuncType(<<>>, None),
                          BlockStmt(<<>>)),
                 Func0(MainId, <<>>)>>),
     File("r", <<VarGV, Func0(MainId, <<ExprStmt(U)>>)>>),
     File("r", <<Func0(MainId, <<>>), VarGV>>) >>

\* Programs that are also executed.
VMPrograms ==
  << \* for k, v := range a { x++; y += v }
     Prog(<<RangeStmt(K, V, "DEFINE", A,
              BlockStmt(<<IncDecStmt(X, "INC"), AssignStmt(<<Y>>, "ADD_ASSIGN", <<V>>)>>))>>),
     \* for _, v := range a { y = y + v }; x = 1
     Prog(<<RangeStmt(None, V, "DEFINE", A, BlockStmt(<<Assign(<<Y>>, <<Binary(Y, "ADD", V)>>)>>)),
            Assign(<<X>>, <<One>>)>>),
     \* for x = 0; x < 2; x++ { y = y * 2 }
     Prog(<<ForStmt(Assign(<<X>>, <<BasicLit("INT", 0, <<>>, 32)>>), Binary(X, "LSS", Two),
                    IncDecStmt(X, "INC"),
                    BlockStmt(<<Assign(<<Y>>, <<Binary(Y, "MUL", Two)>>)>>))>>) >>

StringT == Ident("string", NoEnt, 0)

\* A STRING token: the text of the literal, quotes included.
Quoted(chars) == BasicLit("STRING", 0, <<"\"">> \o chars \o <<"\"">>, 33)

StrLits == << Quoted(<<"a">>), Quoted(<<>>), Quoted(<<"a", "b">>) >>

\* z := map[string]int{s: 1}; x = z[s]
MapKeyProg(s) ==
  Prog(<<Define(<<Z>>, <<CompositeLit(MapType(StringT, IntT), <<KeyValue(s, One)>>)>>),
         Assign(<<X>>, <<Index(Z, s)>>)>>)

\* z := []string{s}; x = s
SliceEltProg(s) ==
  Prog(<<Define(<<Z>>, <<CompositeLit(ArrayType(None, StringT), <<s>>)>>),
         Assign(<<X>>, <<s>>)>>)

\* Every literal as a typed key, as a typed element and as a plain expression.
StringPrograms ==
  [i \in 1..Len(StrLits) |-> MapKeyProg(StrLits[i])]
  \o [i \in 1..Len(StrLits) |-> SliceEltProg(StrLits[i])]

\* The constructs the generator does not support, one per source.
UnsupportedPrograms ==
  << Prog(<<OtherStmt("Labeled", 40)>>),
     Prog(<<OtherStmt("Send", 40)>>),
     Prog(<<OtherStmt("Go", 40)>>),
     Prog(<<OtherStmt("Defer", 40)>>),
     Prog(<<OtherStmt("Branch", 40)>>),
     Prog(<<OtherStmt("Switch", 40)>>),
     Prog(<<OtherStmt("TypeSwitch", 40)>>),
     Prog(<<OtherStmt("Select", 40)>>),
     \* import "q"
     File("p", <<GenDecl("IMPORT", <<ImportSpec(<<"q">>)>>)>>),
     \* x = y.(int)
     Prog(<<Assign(<<X>>, <<TypeAssert(Y, IntT)>>)>>),
     \* var z chan int
     Prog(<<VarStmt(<<Z>>, ChanType(IntT), <<>>)>>),
     \* z := [2]int{1, 2}
     Prog(<<Define(<<Z>>, <<CompositeLit(ArrayType(Two, IntT), <<One, Two>>)>>)>>),
     \* func f()
     File("p", <<FuncDecl(FId, None, FuncType(<<>>, None), None)>>) >>

\* The longest arm of the generated if statements, in statements.
MaxArm == 2

\* n statements x++
Incs(n) == [i \in 1..n |-> IncDecStmt(X, "INC")]

\* if x { b statements } else { e statements }; y++ (no else when e < 0)
IfProg(b, e) ==
  Prog(<<IfStmt(None, X, BlockStmt(Incs(b)), IF e < 0 THEN None ELSE BlockStmt(Incs(e))),
         IncDecStmt(Y, "INC")>>)

\* Every arm length up to MaxArm, without else and with every else length.
IfFamily ==
  [i \in 1..((MaxArm + 1) * (MaxArm + 2)) |->
     IfProg((i - 1) % (MaxArm + 1), (i - 1) \div (MaxArm + 1) - 1)]

NestedIfs ==
  << \* if x { if y { x++ } else { } } else if y { y++ } else { x++; if x { } }
     Prog(<<IfStmt(None, X, BlockStmt(<<IfStmt(None, Y, IncX, BlockStmt(<<>>))>>),
              IfStmt(None, Y, BlockStmt(<<IncDecStmt(Y, "INC")>>),
                     BlockStmt(<<IncDecStmt(X, "INC"),
                                 IfStmt(None, X, BlockStmt(<<>>), None)>>)))>>),
     \* if z := 1; x < y { x++ } else { y++ }
     Prog(<<IfStmt(Define(<<Z>>, <<One>>), Binary(X, "LSS", Y), IncX,
                   BlockStmt(<<IncDecStmt(Y, "INC")>>))>>) >>

IfPrograms == IfFamily \o NestedIfs

\* The largest number of iterations of the executed counting loops.
MaxIter == 2

IntLit(n) == BasicLit("INT", n, <<>>, 32)

\* for x = 0; x < n; x++ { y = y * 2 }
ForCount(n) ==
  Prog(<<ForStmt(Assign(<<X>>, <<IntLit(0)>>), Binary(X, "LSS", IntLit(n)),
                 IncDecStmt(X, "INC"),
                 BlockStmt(<<Assign(<<Y>>, <<Binary(Y, "MUL", Two)>>)>>))>>)

\* Executed for loops: counting loops, loops without init, cond or post, an
\* empty loop, nested loops, a loop followed by another statement.
ForPrograms ==
  [n \in 1..(MaxIter + 1) |-> ForCount(n - 1)]
  \o << \* for x < 2 { x++ }; y = 1
        Prog(<<ForStmt(None, Binary(X, "LSS", Two), None, IncX), Assign(<<Y>>, <<One>>)>>),
        \* for x = 0; ; x = 1 { y = 1 }
        Prog(<<ForStmt(Assign(<<X>>, <<IntLit(0)>>), None, Assign(<<X>>, <<One>>),
                       BlockStmt(<<Assign(<<Y>>, <<One>>)>>))>>),
        \* for { }
        Prog(<<ForStmt(None, None, None, BlockStmt(<<>>))>>),
        \* for x = 0; x < 2; x++ { }
        Prog(<<ForStmt(Assign(<<X>>, <<IntLit(0)>>), Binary(X, "LSS", Two),
                       IncDecStmt(X, "INC"), BlockStmt(<<>>))>>),
        \* for x = 0; x < 2; x++ { for z := 0; z < 2; z++ { y++ } }
        Prog(<<ForStmt(Assign(<<X>>, <<IntLit(0)>>), Binary(X, "LSS", Two),
                       IncDecStmt(X, "INC"),
                       BlockStmt(<<ForStmt(Define(<<Z>>, <<IntLit(0)>>),
                                           Binary(Z, "LSS", Two), IncDecStmt(Z, "INC"),
                                           BlockStmt(<<IncDecStmt(Y, "INC")>>))>>))>>) >>

\* Executed range loops: an empty body, no key and no value, assigned key
\* and value, a loop after another statement, nested loops.
RangePrograms ==
  << \* for k, v := range a { }
     Prog(<<RangeStmt(K, V, "DEFINE", A, BlockStmt(<<>>))>>),
     \* for range a { x++ }
     Prog(<<RangeStmt(None, None, "ASSIGN", A, IncX)>>),
     \* for x, y = range a { }
     Prog(<<RangeStmt(X, Y, "ASSIGN", A, BlockStmt(<<>>))>>),
     \* y = 1; for k := range a { x++; x++ }; y = 2
     Prog(<<Assign(<<Y>>, <<One>>),
            RangeStmt(K, None, "DEFINE", A, BlockStmt(Incs(2))),
            Assign(<<Y>>, <<Two>>)>>),
     \* x = 1; for _, v := range a { for _, w := range a { y += w } }
     Prog(<<Assign(<<X>>, <<One>>),
            RangeStmt(None, V, "DEFINE", A,
              BlockStmt(<<RangeStmt(None, W, "DEFINE", A,
                            BlockStmt(<<AssignStmt(<<Y>>, "ADD_ASSIGN", <<W>>)>>))>>))>>) >>

\* Range loops whose key or value target is an index, selector or deref
\* expression.
RangeLhsPrograms ==
  << \* for a[1], y = range a { }
     Prog(<<RangeStmt(Index(A, One), Y, "ASSIGN", A, BlockStmt(<<>>))>>),
     \* for x, *p = range a { }
     Prog(<<RangeStmt(X, Star(P), "ASSIGN", A, BlockStmt(<<>>))>>),
     \* for a.fld, a[1] = range a { }
     Prog(<<RangeStmt(Selector(A, Fld), Index(A, One), "ASSIGN", A, BlockStmt(<<>>))>>),
     \* for *p = range a { }
     Prog(<<RangeStmt(Star(P), None, "ASSIGN", A, BlockStmt(<<>>))>>) >>

\* Assignments to several targets of mixed kinds.
AssignPrograms ==
  << \* *p, a.fld, *p = 1, 2, x
     Prog(<<Assign(<<Star(P), Selector(A, Fld), Star(P)>>, <<One, Two, X>>)>>),
     \* a[x], a[y] = a[y], a[x]
     Prog(<<Assign(<<Index(A, X), Index(A, Y)>>, <<Index(A, Y), Index(A, X)>>)>>),
     \* gv, x = x, gv
     Prog(<<Assign(<<GV, X>>, <<X, GV>>)>>),
     \* *p = 1
     Prog(<<Assign(<<Star(P)>>, <<One>>)>>) >>

\* Executed parallel assignments between locals.
SwapPrograms ==
  << \* x, y = y, x
     Prog(<<Assign(<<X, Y>>, <<Y, X>>)>>),
     \* x = 1; y = 2; x, y = y, x
     Prog(<<Assign(<<X>>, <<One>>), Assign(<<Y>>, <<Two>>), Assign(<<X, Y>>, <<Y, X>>)>>),
     \* x = 1; y = 2; x, y = y, x + y
     Prog(<<Assign(<<X>>, <<One>>), Assign(<<Y>>, <<Two>>),
            Assign(<<X, Y>>, <<Y, Binary(X, "ADD", Y)>>)>>),
     \* x = 2; y = 1; x, _, y = x + y, x, x - y
     Prog(<<Assign(<<X>>, <<Two>>), Assign(<<Y>>, <<One>>),
            Assign(<<X, blank_ident, Y>>,
                   <<Binary(X, "ADD", Y), X, Binary(X, "SUB", Y)>>)>>) >>

R == Ident("r", "r", 33)

S == Ident("s", "s", 34)

\* package p; var gv = 1; func main(x, y int, a []int, p *int) <results> { stmts }
ProgWithResults(results, stmts) ==
  File("p", <<VarGV, FuncDecl(MainId, None, FuncType(StdParams, FieldList(results)),
                              BlockStmt(stmts))>>)

\* Executed return statements, of functions with unnamed and named results.
ReturnPrograms ==
  << \* (int, int) { return y, x + y }
     ProgWithResults(<<Field(<<>>, IntT), Field(<<>>, IntT)>>,
                     <<ReturnStmt(<<Y, Binary(X, "ADD", Y)>>)>>),
     \* (r, s int) { x = 1; y = 2; return y, x }
     ProgWithResults(<<Field(<<R, S>>, IntT)>>,
                     <<Assign(<<X>>, <<One>>), Assign(<<Y>>, <<Two>>), ReturnStmt(<<Y, X>>)>>),
     \* (r, s int) { r = 1; s = 2; return r + s, s }
     ProgWithResults(<<Field(<<R, S>>, IntT)>>,
                     <<Assign(<<R>>, <<One>>), Assign(<<S>>, <<Two>>),
                       ReturnStmt(<<Binary(R, "ADD", S), S>>)>>),
     \* (r, s int) { r = 1; s = 2; return s, r }
     ProgWithResults(<<Field(<<R, S>>, IntT)>>,
                     <<Assign(<<R>>, <<One>>), Assign(<<S>>, <<Two>>), ReturnStmt(<<S, R>>)>>),
     \* (r int) { r = 1; return r }
     ProgWithResults(<<Field(<<R>>, IntT)>>, <<Assign(<<R>>, <<One>>), ReturnStmt(<<R>>)>>) >>

NilId == Ident("nil", NoEnt, 35)

\* func() { stmts }()
CallLit(stmts) == ExprStmt(Call(Lit(stmts), <<>>, FALSE))

\* Nested function literals, each called in the last statement of its parent.
ClosurePrograms ==
  << \* func() { x = 1; func() { y = gv }() }()
     Prog(<<CallLit(<<Assign(<<X>>, <<One>>), CallLit(<<Assign(<<Y>>, <<GV>>)>>)>>)>>),
     \* func() { func() { func() { y = x }() }() }()
     Prog(<<CallLit(<<CallLit(<<CallLit(<<Assign(<<Y>>, <<X>>)>>)>>)>>)>>),
     \* func() { w := 1; func() { w = gv }() }()
     Prog(<<CallLit(<<Define(<<W>>, <<One>>), CallLit(<<Assign(<<W>>, <<GV>>)>>)>>)>>) >>

\* y == 1, which the arguments of main make true or false
YIsOne == Binary(Y, "EQL", One)

\* x == 0, true when main starts
XIsZero == Binary(X, "EQL", IntLit(0))

\* Executed short-circuit expressions, nested ones included; the last has a
\* right operand of more than I16Max words.
ShortPrograms ==
  << \* x = y == 1 && x == 0
     Prog(<<Assign(<<X>>, <<Binary(YIsOne, "LAND", XIsZero)>>)>>),
     \* x = y == 1 || x == 0
     Prog(<<Assign(<<X>>, <<Binary(YIsOne, "LOR", XIsZero)>>)>>),
     \* x = false || y == 1
     Prog(<<Assign(<<X>>, <<Binary(FalseId, "LOR", YIsOne)>>)>>),
     \* x = (y == 1 && x == 1) || y == 1
     Prog(<<Assign(<<X>>, <<Binary(Binary(YIsOne, "LAND", Binary(X, "EQL", One)),
                                  "LOR", YIsOne)>>)>>),
     \* x = y == 1 && (x == 1 || true)
     Prog(<<Assign(<<X>>, <<Binary(YIsOne, "LAND",
                                  Binary(Binary(X, "EQL", One), "LOR", TrueId))>>)>>),
     \* x = false && x(y, ..., y)
     Prog(<<Assign(<<X>>, <<Binary(FalseId, "LAND", BigExpr)>>)>>) >>

Sources ==
  Programs \o Files \o VMPrograms \o StringPrograms \o UnsupportedPrograms \o IfPrograms
  \o ForPrograms \o RangePrograms \o RangeLhsPrograms \o AssignPrograms \o SwapPrograms
  \o ReturnPrograms \o ClosurePrograms \o ShortPrograms

FileSources == {Len(Programs) + i : i \in 1..Len(Files)}

VMSources == {Len(Programs) + Len(Files) + i : i \in 1..Len(VMPrograms)}

StringSources ==
  {Len(Programs) + Len(Files) + Len(VMPrograms) + i : i \in 1..Len(StringPrograms)}

UnsupportedSources ==
  {Len(Programs) + Len(Files) + Len(VMPrograms) + Len(StringPrograms) + i :
     i \in 1..Len(UnsupportedPrograms)}

IfSources ==
  {Len(Programs) + Len(Files) + Len(VMPrograms) + Len(StringPrograms)
     + Len(UnsupportedPrograms) + i : i \in 1..Len(IfPrograms)}

ForSources ==
  {Len(Programs) + Len(Files) + Len(VMPrograms) + Len(StringPrograms)
     + Len(UnsupportedPrograms) + Len(IfPrograms) + i : i \in 1..Len(ForPrograms)}

RangeSources ==
  {Len(Programs) + Len(Files) + Len(VMPrograms) + Len(StringPrograms)
     + Len(UnsupportedPrograms) + Len(IfPrograms) + Len(ForPrograms) + i :
     i \in 1..Len(RangePrograms)}

RangeLhsSources ==
  {Len(Programs) + Len(Files) + Len(VMPrograms) + Len(StringPrograms)
     + Len(UnsupportedPrograms) + Len(IfPrograms) + Len(ForPrograms)
     + Len(RangePrograms) + i : i \in 1..Len(RangeLhsPrograms)}

AssignSources == {Max(RangeLhsSources) + i : i \in 1..Len(AssignPrograms)}

SwapSources == {Max(AssignSources) + i : i \in 1..Len(SwapPrograms)}

ReturnSources == {Max(SwapSources) + i : i \in 1..Len(ReturnPrograms)}

ClosureSources == {Max(ReturnSources) + i : i \in 1..Len(ClosurePrograms)}

ShortSources == {Max(ClosureSources) + i : i \in 1..Len(ShortPrograms)}

\* The sources whose main is executed.
ExecutedSources ==
  VMSources \cup ForSources \cup RangeSources \cup SwapSources \cup ReturnSources
  \cup ShortSources

\* The sources whose main is loaded into a frame; the frame of an
\* AssignSource stops at the first instruction that is not modelled.
LoadedSources == ExecutedSources \cup AssignSources

(***************************************************************************)
(* The state machines.  The state is the CodeGen struct (objects,          *)
(* package_indices, packages, current_pkg, func_stack, errors), the source *)
(* being compiled, the position of the driver, its return value and the    *)
(* frame of the virtual machine that executes the generated code.          *)
(***************************************************************************)
VARIABLES objects, package_indices, packages, current_pkg, func_stack, errors,
          src, pc, out, vm

vars ==
  <<objects, package_indices, packages, current_pkg, func_stack, errors, src, pc, out, vm>>

codegen_vars == <<objects, package_indices, packages, current_pkg, func_stack, errors>>

\* The generator state as the visitor's record.
G ==
  [functions |-> objects.functions, pkgs |-> objects.packages,
   strings |-> objects.strings, types |-> objects.types,
   slices |-> objects.slices, maps |-> objects.maps,
   package_indices |-> package_indices, packages |-> packages,
   current_pkg |-> current_pkg, func_stack |-> func_stack, errors |-> errors]

ObjectsOf(g) ==
  [functions |-> g.functions, packages |-> g.pkgs, strings |-> g.strings,
   types |-> g.types, slices |-> g.slices, maps |-> g.maps]

SetCodeGen(g) ==
  /\ objects' = ObjectsOf(g)
  /\ package_indices' = g.package_indices
  /\ packages' = g.packages
  /\ current_pkg' = g.current_pkg
  /\ func_stack' = g.func_stack
  /\ errors' = g.errors

\* The generator state is that of g.
IsCodeGen(g) ==
  /\ objects = ObjectsOf(g)
  /\ package_indices = g.package_indices
  /\ packages = g.packages
  /\ current_pkg = g.current_pkg
  /\ func_stack = g.func_stack
  /\ errors = g.errors

NoOut == [k |-> "None", n |-> 0, bc |-> <<>>]

\* No frame: nothing is being executed.
NoFrame == [status |-> "idle", fn |-> NullKey, ip |-> 0, stack |-> <<>>, locals |-> <<>>]

\* CodeGen::new(...), before gen is called.
Init ==
  /\ IsCodeGen(NewCodeGen)
  /\ src \in 1..Len(Sources)
  /\ pc = "new"
  /\ out = NoOut
  /\ vm = NoFrame

\* let re = code_gen.gen(afile.unwrap()); a panic ends the program.
RunGen ==
  /\ pc = "new"
  /\ LET r == gen(G, Sources[src])
     IN  /\ SetCodeGen(r.g)
         /\ pc' = r.r
  /\ UNCHANGED <<src, out, vm>>

\* if re.is_err() { ...; Err(el.len()) }
ReturnErr ==
  /\ pc = "Err"
  /\ out' = [k |-> "Err", n |-> Len(errors), bc |-> <<>>]
  /\ pc' = "returned"
  /\ UNCHANGED <<codegen_vars, src, vm>>

\* else { Ok(code_gen.into_byte_code()) }
ReturnOk ==
  /\ pc = "Ok"
  /\ out' = [k |-> "Ok", n |-> 0, bc |-> <<into_byte_code(G)>>]
  /\ pc' = "returned"
  /\ UNCHANGED <<codegen_vars, src, vm>>

Next == RunGen \/ ReturnErr \/ ReturnOk

Spec == Init /\ [][Next]_vars

(***************************************************************************)
(* gen called for several files on one CodeGen.  A failed gen returns      *)
(* through `?` and is followed by no other call.                           *)
(***************************************************************************)
MaxPkgs == 3

InitPkgs ==
  /\ IsCodeGen(NewCodeGen)
  /\ src = 0
  /\ pc = "new"
  /\ out = NoOut
  /\ vm = NoFrame

Gen(s) ==
  /\ pc \in {"new", "Ok"}
  /\ Len(packages) < MaxPkgs
  /\ LET r == gen(G, Sources[s])
     IN  /\ SetCodeGen(r.g)
         /\ pc' = r.r
  /\ src' = s
  /\ UNCHANGED <<out, vm>>

NextPkgs == \E s \in FileSources : Gen(s)

SpecPkgs == InitPkgs /\ [][NextPkgs]_vars

(***************************************************************************)
(* The virtual machine, for the instructions the executed programs use.    *)
(* A frame holds the function, the index of the next word, the operand     *)
(* stack and the local slots.  A jump's target is the index of the word    *)
(* following its data slot plus its offset; STORE copies the stack word at *)
(* its value offset into the target and removes nothing; RANGE on every    *)
(* tick either advances the cursor and pushes the next key/value pair, or  *)
(* jumps to its exit offset.                                               *)
(***************************************************************************)
MaxEntries == 3

Entries == {1, 2}

Slices == UNION {[1..n -> Entries] : n \in 0..MaxEntries}

\* The function that was added to package pkey as its main_func.
main_func_key(g, pkey) == g.pkgs[pkey].members[g.pkgs[pkey].main_func + 1].v

\* The frame of a call of fkey with the given arguments: the arguments fill
\* the local slots that follow the return slots, the other slots are zero.
NewFrame(g, fkey, args) ==
  LET ret_count == g.functions[fkey].ret_count
  IN  [status |-> "run", fn |-> fkey, ip |-> 0, stack |-> <<>>,
       locals |-> [i \in 1..g.functions[fkey].local_count |->
                     IF ret_count < i /\ i <= ret_count + Len(args)
                     THEN args[i - ret_count] ELSE 0]]

vm_code == objects.functions[vm.fn].code

\* The word at index i, counted from 0.
Word(i) == vm_code[i + 1]

Running(ops) ==
  vm.status = "run" /\ vm.ip >= 0 /\ vm.ip < Len(vm_code) /\ Word(vm.ip).op \in ops

\* The stack word at offset off from the top (-1 is the top).
StackAt(off) == vm.stack[Len(vm.stack) + 1 + off]

Push(stack, v) == Append(stack, v)

Pop(stack, n) == SubSeq(stack, 1, Len(stack) - n)

\* The slices main is called with; a main that evaluates a short-circuit
\* expression never reads its slice.
SlicesFor(s) == IF s \in ShortSources THEN {<<>>} ELSE Slices

InitVM ==
  \E s \in LoadedSources :
    LET r == gen(NewCodeGen, Sources[s])
    IN  /\ IsCodeGen(r.g)
        /\ src = s
        /\ pc = "returned"
        /\ out = [k |-> "Ok", n |-> 0, bc |-> <<into_byte_code(r.g)>>]
        /\ \E x0 \in {0}, y0 \in {0, 1}, xs \in SlicesFor(s) :
             vm = NewFrame(r.g, main_func_key(r.g, r.g.current_pkg), <<x0, y0, xs, 0>>)

PushOps == {"PUSH_IMM", "PUSH_TRUE", "PUSH_FALSE", "PUSH_NIL", "LOAD_LOCAL", "PUSH_CONST"}

ConstVal(i) == objects.functions[vm.fn].consts[i + 1].val.v

VMPush ==
  /\ Running(PushOps)
  /\ LET op == Word(vm.ip).op
         v == CASE op = "PUSH_IMM" -> Word(vm.ip + 1).d
                [] op = "PUSH_TRUE" -> TRUE
                [] op = "PUSH_FALSE" -> FALSE
                [] op = "PUSH_NIL" -> 0
                [] op = "LOAD_LOCAL" -> vm.locals[Word(vm.ip + 1).d + 1]
                [] op = "PUSH_CONST" -> ConstVal(Word(vm.ip + 1).d)
         n == IF op \in {"PUSH_TRUE", "PUSH_FALSE", "PUSH_NIL"} THEN 1 ELSE 2
     IN  vm' = [vm EXCEPT !.stack = Push(@, v), !.ip = @ + n]
  /\ UNCHANGED <<codegen_vars, src, pc, out>>

\* The operator a STORE's op data word numbers.
OpOfNum(n) == CHOOSE op \in {"ADD", "SUB", "MUL"} : OpNum(op) = n

Arith(op, a, b) ==
  CASE op = "ADD" -> a + b
    [] op = "SUB" -> a - b
    [] op = "MUL" -> a * b
    [] op = "LSS" -> a < b
    [] op = "GTR" -> a > b
    [] op = "EQL" -> a = b
    [] op = "NEQ" -> a # b

VMBinary ==
  /\ Running({"ADD", "SUB", "MUL", "LSS", "GTR", "EQL", "NEQ"})
  /\ vm' = [vm EXCEPT !.stack = Push(Pop(@, 2), Arith(Word(vm.ip).op, StackAt(-2), StackAt(-1))),
                      !.ip = @ + 1]
  /\ UNCHANGED <<codegen_vars, src, pc, out>>

\* STORE into a local slot: two data words and, for op=, the operator.
VMStore ==
  /\ Running({"STORE_LOCAL"})
  /\ LET i == Word(vm.ip + 1).d + 1
         v == StackAt(Word(vm.ip + 2).d)
         has_op == vm.ip + 3 < Len(vm_code) /\ Word(vm.ip + 3).op = "DATA"
     IN  vm' = [vm EXCEPT
                  !.locals[i] = IF has_op THEN Arith(OpOfNum(Word(vm.ip + 3).d), @, v) ELSE v,
                  !.ip = @ + (IF has_op THEN 4 ELSE 3)]
  /\ UNCHANGED <<codegen_vars, src, pc, out>>

\* STORE into Blank: the value is discarded.
VMStoreBlank ==
  /\ Running({"STORE_BLANK"})
  /\ vm' = [vm EXCEPT !.ip = @ + 3]
  /\ UNCHANGED <<codegen_vars, src, pc, out>>

VMPop ==
  /\ Running({"POP"})
  /\ vm' = [vm EXCEPT !.stack = Pop(@, 1), !.ip = @ + 1]
  /\ UNCHANGED <<codegen_vars, src, pc, out>>

\* The conditional jumps consume the value they test.
VMJump ==
  /\ Running({"JUMP", "JUMP_IF", "JUMP_IF_NOT"})
  /\ LET op == Word(vm.ip).op
         off == Word(vm.ip + 1).d
         taken == CASE op = "JUMP" -> TRUE
                    [] op = "JUMP_IF" -> StackAt(-1)
                    [] op = "JUMP_IF_NOT" -> ~StackAt(-1)
     IN  vm' = [vm EXCEPT !.stack = IF op = "JUMP" THEN @ ELSE Pop(@, 1),
                          !.ip = @ + 2 + (IF taken THEN off ELSE 0)]
  /\ UNCHANGED <<codegen_vars, src, pc, out>>

\* The iterable and the cursor are the two top words.
VMRange ==
  /\ Running({"RANGE"})
  /\ LET xs == StackAt(-2)
         cursor == StackAt(-1) + 1
     IN  IF cursor < Len(xs)
         THEN vm' = [vm EXCEPT
                       !.stack = Push(Push(Push(Pop(@, 1), cursor), cursor), xs[cursor + 1]),
                       !.ip = @ + 2]
         ELSE vm' = [vm EXCEPT !.ip = @ + 2 + Word(vm.ip + 1).d]
  /\ UNCHANGED <<codegen_vars, src, pc, out>>

VMReturn ==
  /\ Running({"RETURN"})
  /\ vm' = [vm EXCEPT !.status = "returned"]
  /\ UNCHANGED <<codegen_vars, src, pc, out>>

NextVM ==
  VMPush \/ VMBinary \/ VMStore \/ VMStoreBlank \/ VMPop \/ VMJump \/ VMRange \/ VMReturn

SpecVM == InitVM /\ [][NextVM]_vars

(***************************************************************************)
(* Properties.                                                             *)
(***************************************************************************)
\* gen has been called and has returned or panicked.
Generated == pc # "new"

\* The code of function fk.
CodeOf(fk) == objects.functions[fk].code

\* The code of main in the sources made by Prog: the function built after the
\* package constructor.
MainCode == CodeOf(2)

Diagnosed(msg) == \E i \in 1..Len(errors) : errors[i].msg = msg

\* The words that carry a jump offset in their data slot.
JumpOps == {"JUMP", "JUMP_IF", "JUMP_IF_NOT", "RANGE"}

\* The target of the jump at position i (1-based) of code: the index of the
\* word following its data slot plus its offset, as a 1-based position.
Target(code, i) == i + 2 + code[i + 1].d

(***************************************************************************)
(* C1: a file is fully compiled or entirely rejected.                      *)
(***************************************************************************)
\* C1: if a diagnostic is recorded while generating a file, gen returns failure
\* and load_parse_gen returns an error count and no ByteCode; a ByteCode is
\* returned only when no diagnostic was recorded.
C1_FullyCompiledOrRejected ==
  /\ (Generated /\ errors # <<>>) => (pc \in {"Err", "returned"} /\ out.k # "Ok")
  /\ out.k = "Ok" => errors = <<>>

(***************************************************************************)
(* C2: an identifier whose entity is found nowhere.                        *)
(***************************************************************************)
\* The sources in which a function body names a package-level function that
\* is not yet a member: main calling itself, main calling a later function.
NotYetMember == {20, 21}

\* C2: resolving an identifier that has an entity found in no table records
\* an "undefined" diagnostic and returns failure; the generator never aborts
\* abnormally on it.
C2_UndefinedIsDiagnosed ==
  (src \in NotYetMember /\ Generated) =>
    (pc \in {"Err", "returned"} /\ out.k # "Ok" /\ Diagnosed("undefined"))

(***************************************************************************)
(* C3: jump offsets that do not fit in 16 bits.                            *)
(***************************************************************************)
\* The sources in which the distance of a jump exceeds I16Max: the body of an
\* if, a for and a range, and the right operand of && and of ||.
LongJump == {23, 24, 25, 26, 27}

\* C3: whenever the distance of a jump does not fit in a signed 16-bit word,
\* generation fails with a recorded error: the generator neither crashes nor
\* writes a wrapped offset into the code.
C3_OverflowIsReported ==
  (src \in LongJump /\ Generated) =>
    (pc \in {"Err", "returned"} /\ out.k # "Ok" /\ errors # <<>>)

(***************************************************************************)
(* C4: the targets of the short-circuit jumps.                             *)
(***************************************************************************)
\* The sources whose only jumps are those of && and ||.
ShortCircuits == {26, 27, 31, 32, 33, 34}

\* The tail of a short-circuit jump: PUSH_FALSE for &&, PUSH_TRUE for ||.
TailOf(op) == IF op = "JUMP_IF_NOT" THEN "PUSH_FALSE" ELSE "PUSH_TRUE"

\* The jump at position i of code lands on its tail, which directly follows
\* the JUMP 1 emitted after the right operand.
LandsOnTail(code, i) ==
  /\ Target(code, i) \in (i + 4)..Len(code)
  /\ code[Target(code, i)].op = TailOf(code[i].op)
  /\ code[Target(code, i) - 2].op = "JUMP"
  /\ code[Target(code, i) - 1] = Data(1)

\* C4: in the code of a && b (a || b) the JUMP_IF_NOT (JUMP_IF) emitted after
\* a's code lands, after backpatching, exactly on the PUSH_FALSE (PUSH_TRUE)
\* tail, past b's code and the JUMP that follows it, for every operand size
\* and for nested operands.
C4_ShortCircuitLandsOnTail ==
  (src \in ShortCircuits /\ pc = "Ok") =>
    \A i \in 1..Len(MainCode) :
      MainCode[i].op \in {"JUMP_IF_NOT", "JUMP_IF"} => LandsOnTail(MainCode, i)

\* The same for the operands whose code is shorter than I16Max words.
C4_ShortOperands ==
  (src \in ShortCircuits \ LongJump /\ pc = "Ok") =>
    \A i \in 1..Len(MainCode) :
      MainCode[i].op \in {"JUMP_IF_NOT", "JUMP_IF"} => LandsOnTail(MainCode, i)

(***************************************************************************)
(* C5, C6: the stack effect of assignments.                                *)
(***************************************************************************)
\* The source is package p; var gv = 1; func main(...) { one statement }.
OneStmt ==
  /\ Len(Sources[src].decls) = 2
  /\ Sources[src].decls[1].k = "Gen"
  /\ Sources[src].decls[2].k = "FuncDecl"
  /\ Len(Sources[src].decls[2].body.list) = 1

TheStmt == Sources[src].decls[2].body.list[1]

IsOpAssign(stmt) ==
  \/ stmt.k = "IncDec"
  \/ stmt.k = "Assign" /\ stmt.tok \notin {"ASSIGN", "DEFINE"} /\ Len(stmt.lhs) = 1

IsPlainAssign(stmt) ==
  \/ stmt.k = "Assign" /\ stmt.tok \in {"ASSIGN", "DEFINE"}
  \/ stmt.k = "Decl" /\ stmt.decl.k = "Gen" /\ stmt.decl.tok = "VAR" /\ Len(stmt.decl.specs) = 1

\* The targets of an assignment, an inc/dec or a var declaration.
TargetsOf(stmt) ==
  CASE stmt.k = "IncDec" -> <<stmt.x>>
    [] stmt.k = "Assign" -> stmt.lhs
    [] stmt.k = "Decl" -> stmt.decl.specs[1].names

\* Words pushed to prepare the targets: 0 per identifier, 2 per index or
\* selector, 1 per deref.
PrepWords(targets) ==
  2 * Cardinality({i \in 1..Len(targets) : targets[i].k \in {"Index", "Selector"}})
  + Cardinality({i \in 1..Len(targets) : targets[i].k = "Star"})

PopCount(code) == Cardinality({i \in 1..Len(code) : code[i].op = "POP"})

\* C5: a compound assignment and an inc/dec statement are stack-neutral for
\* every kind of target: the words pushed by the target preparation plus the
\* right-hand value equal the words removed before the statement ends (the
\* POPs, as STORE removes nothing).
C5_OpAssignStackNeutral ==
  (OneStmt /\ IsOpAssign(TheStmt) /\ pc = "Ok") =>
    PopCount(MainCode) = PrepWords(TargetsOf(TheStmt)) + 1

\* C6: for a plain assignment, short declaration or var declaration with any
\* number and mix of targets, the words pushed for target preparation plus
\* the number of right-hand values (one per target) equal the POPs emitted
\* after the stores.
C6_AssignPopsAll ==
  (OneStmt /\ IsPlainAssign(TheStmt) /\ pc = "Ok") =>
    PopCount(MainCode) = PrepWords(TargetsOf(TheStmt)) + Len(TargetsOf(TheStmt))

\* a[1], *p, x, a.fld = 1, 2, y, x has been generated: 5 preparation words, 4
\* values and 9 POPs.
C6_Witness ==
  /\ OneStmt /\ IsPlainAssign(TheStmt) /\ pc = "Ok"
  /\ Len(TargetsOf(TheStmt)) = 4
  /\ PrepWords(TargetsOf(TheStmt)) = 5
  /\ PopCount(MainCode) = 9

(***************************************************************************)
(* C7: executing a range loop.                                             *)
(***************************************************************************)
\* main is func main(x, y int, a []int, p *int) { for ... range a { ... }; ... }
RangeFirst ==
  /\ Len(Sources[src].decls) = 2
  /\ Sources[src].decls[2].k = "FuncDecl"
  /\ Len(Sources[src].decls[2].body.list) >= 1
  /\ Sources[src].decls[2].body.list[1].k = "Range"

\* The body of the loop counts its runs in x: its first statement is x++.
CountsInX ==
  /\ RangeFirst
  /\ Sources[src].decls[2].body.list[1].body.list # <<>>
  /\ Sources[src].decls[2].body.list[1].body.list[1] = IncDecStmt(X, "INC")

\* Every iteration starts, at the RANGE tick, two words above the depth
\* before the loop: the iterable and the cursor.
SameDepthEachTick == (RangeFirst /\ Running({"RANGE"})) => Len(vm.stack) = 2

\* main has returned after running the body once per entry of a; x was 0.
OncePerEntry == (CountsInX /\ vm.status = "returned") => vm.locals[1] = Len(vm.locals[3])

\* C7: the code of a range loop runs the body once per entry, starts every
\* iteration at the same stack depth and, on exit, leaves the operand stack at
\* the depth it had before the loop: the iterable and the cursor seed do not
\* remain.
C7_RangeCoverage ==
  /\ SameDepthEachTick
  /\ OncePerEntry
  /\ (RangeFirst /\ vm.status = "returned") => Len(vm.stack) = 0

\* C7, without the exit depth: once per entry, the same depth at every tick.
C7_OncePerEntrySameDepth == SameDepthEachTick /\ OncePerEntry

\* A loop over three entries has run to the end of main.
C7_Witness ==
  /\ CountsInX /\ vm.status = "returned"
  /\ Len(vm.locals[3]) = MaxEntries
  /\ vm.locals[1] = MaxEntries

(***************************************************************************)
(* C8: the packages of successive calls of gen.                            *)
(***************************************************************************)
\* The number of packages whose gen has returned Ok: a failed or aborted gen
\* leaves its package last in the list.
Completed == IF pc \in {"new", "Ok"} THEN Len(packages) ELSE Len(packages) - 1

\* The package generated by the call number j - 1.
PkgAt(j) == objects.packages[packages[j]]

\* The positions of the packages named name.
Named(name) == {j \in 1..Len(packages) : PkgAt(j).name = name}

EndsWithReturnInitPkg(code, index) ==
  /\ Len(code) >= 2
  /\ code[Len(code) - 1] = Code("RETURN_INIT_PKG")
  /\ code[Len(code)] = Data(index)

\* C8: after the k-th successful call of gen, member 0 of the generated
\* package is the constructor Function, whose code ends with
\* RETURN_INIT_PKG(k); k is the package's position in the package list and
\* package_indices[name]; the indices of earlier packages never change (for
\* a name generated twice, package_indices names the later package).
C8_PackageIndex ==
  /\ \A j \in 1..Completed :
       /\ PkgAt(j).members[1].t = "Function"
       /\ objects.functions[PkgAt(j).members[1].v].is_ctor
       /\ objects.functions[PkgAt(j).members[1].v].package = packages[j]
       /\ EndsWithReturnInitPkg(CodeOf(PkgAt(j).members[1].v), j - 1)
       /\ PkgAt(j).name \in DOMAIN package_indices
       /\ package_indices[PkgAt(j).name] = Max(Named(PkgAt(j).name)) - 1
  /\ (pc = "Ok" /\ packages # <<>>) =>
       package_indices[PkgAt(Len(packages)).name] = Len(packages) - 1

\* The third call of gen has returned Ok, for a package name generated before.
C8_Witness ==
  /\ pc = "Ok"
  /\ Len(packages) = 3
  /\ Cardinality(Named(PkgAt(3).name)) >= 2
  /\ package_indices[PkgAt(3).name] = 2
  /\ EndsWithReturnInitPkg(CodeOf(PkgAt(3).members[1].v), 2)

(***************************************************************************)
(* C9: main_func.                                                          *)
(***************************************************************************)
TheFile == Sources[src]

\* The declarations of a function main without receiver.
MainDecls ==
  {i \in 1..Len(TheFile.decls) :
     /\ TheFile.decls[i].k = "FuncDecl"
     /\ TheFile.decls[i].recv.k = "None"
     /\ TheFile.decls[i].name.name = "main"}

\* The declarations with a receiver.
MethodDecls ==
  {i \in 1..Len(TheFile.decls) :
     TheFile.decls[i].k = "FuncDecl" /\ TheFile.decls[i].recv.k # "None"}

\* The functions declared without receiver.
FuncDecls ==
  {i \in 1..Len(TheFile.decls) :
     TheFile.decls[i].k = "FuncDecl" /\ TheFile.decls[i].recv.k = "None"}

ThePkg == objects.packages[current_pkg]

\* Some type carries a member function of that name.
IsMethod(name) ==
  \E t \in 1..Len(objects.types) :
    \E m \in 1..Len(objects.types[t].members) :
      /\ objects.types[t].members[m].name = name
      /\ objects.types[t].members[m].val.t = "Function"

\* The package members that are functions, the constructor aside.
FuncMembers == {m \in 2..Len(ThePkg.members) : ThePkg.members[m].t = "Function"}

\* C9: main_func is set exactly when the file declares a function main
\* without receiver, and then it is the member index at which that function
\* was added, never 0; a declaration with a receiver is attached to its
\* receiver type, is no package member and does not set main_func.
C9_MainFunc ==
  pc = "Ok" =>
    /\ ThePkg.main_func # NewPackageVal("").main_func <=> MainDecls # {}
    /\ MainDecls # {} =>
         /\ ThePkg.main_func >= 1
         /\ ThePkg.main_func = ThePkg.member_indices["main"]
         /\ ThePkg.members[ThePkg.main_func + 1].t = "Function"
    /\ \A i \in MethodDecls : IsMethod(TheFile.decls[i].name.name)
    /\ Cardinality(FuncMembers) = Cardinality(FuncDecls)

\* A file with main and a method has been generated.
C9_Witness ==
  /\ pc = "Ok"
  /\ MainDecls # {} /\ MethodDecls # {}
  /\ ThePkg.main_func = 2
  /\ ThePkg.members[3].t = "Function"

\* A file whose only function main has a receiver has been generated.
C9_WitnessMethodMain ==
  /\ pc = "Ok"
  /\ MainDecls = {}
  /\ \E i \in MethodDecls : TheFile.decls[i].name.name = "main"
  /\ ThePkg.main_func = -1

(***************************************************************************)
(* C10: the shape of the right-hand side.                                  *)
(***************************************************************************)
IsConstDecl(stmt) ==
  stmt.k = "Decl" /\ stmt.decl.k = "Gen" /\ stmt.decl.tok = "CONST" /\ Len(stmt.decl.specs) = 1

\* The right-hand expressions of an assignment or a declaration.
ValuesOf(stmt) == IF stmt.k = "Assign" THEN stmt.rhs ELSE stmt.decl.specs[1].values

NamesOf(stmt) == IF stmt.k = "Assign" THEN stmt.lhs ELSE stmt.decl.specs[1].names

\* m = n, or m = 0, or m = 1 and the expression is a call; for a const, m = n.
ShapeOk(stmt) ==
  \/ Len(ValuesOf(stmt)) = Len(NamesOf(stmt))
  \/ /\ ~IsConstDecl(stmt)
     /\ \/ Len(ValuesOf(stmt)) = 0
        \/ Len(ValuesOf(stmt)) = 1 /\ ValuesOf(stmt)[1].k = "Call"

Rejected == pc \in {"Err", "returned"} /\ out.k # "Ok"

\* The statement of main is an assignment or a declaration: it is generated
\* iff its shape is one of the three, and is rejected with the diagnostic
\* otherwise.
DirectMismatch ==
  (OneStmt /\ (IsPlainAssign(TheStmt) \/ IsConstDecl(TheStmt)) /\ Generated) =>
    /\ ShapeOk(TheStmt) <=> ~Diagnosed("assignment mismatch")
    /\ ~ShapeOk(TheStmt) => Rejected

\* C10: an assignment or var declaration is generated iff m = n, or m = 0, or
\* m = 1 and the expression is a call; in every other case, and for a const
\* declaration with m # n, an assignment-mismatch diagnostic is recorded, the
\* statement fails and no artifact is produced.
C10_MismatchRejected ==
  /\ DirectMismatch
  /\ (Generated /\ Diagnosed("assignment mismatch")) => Rejected

\* C10 for the statements of main itself.
C10_DirectStatements == DirectMismatch

(***************************************************************************)
(* C11: the stack of functions under construction.                         *)
(***************************************************************************)
\* The constructor of the package being generated: gen pushes it before the
\* declarations and pops it only when every declaration was generated.
CtorKey == objects.packages[current_pkg].members[1].v

\* main is one statement, len(func() { ... }).
LenOfLit ==
  /\ OneStmt
  /\ TheStmt.k = "Expr" /\ TheStmt.x.k = "Call"
  /\ TheStmt.x.func = Len_
  /\ Len(TheStmt.x.args) = 1 /\ TheStmt.x.args[1].k = "FuncLit"

HasOp(code, op) == \E i \in 1..Len(code) : code[i].op = op

\* C11: every function visit leaves the function stack as it found it, on the
\* failing path too: when gen returns Ok the stack is empty, when gen returns
\* Err only the package constructor that gen pushed is left; and the LEN of
\* len(func() { ... }), emitted after the literal was visited, is in main.
C11_FuncStackBalanced ==
  /\ pc = "Ok" => func_stack = <<>>
  /\ pc = "Err" => func_stack = <<CtorKey>>
  /\ (LenOfLit /\ pc = "Ok") => HasOp(MainCode, "LEN")

\* C11 for the files in which every function body compiles.
C11_BalancedWhenBodiesCompile == (pc = "Ok" /\ errors = <<>>) => func_stack = <<>>

(***************************************************************************)
(* C12: string literals with and without a declared type.                  *)
(***************************************************************************)
\* The literal s of the source: the right-hand side of main's second
\* statement is z[s] or s.
TheLit ==
  LET e == Sources[src].decls[2].body.list[2].rhs[1]
  IN  IF e.k = "Index" THEN e.index ELSE e

\* The strings made for the keys of map literals.
KeyStrings ==
  UNION {{objects.strings[objects.maps[m][e][1].v] : e \in 1..Len(objects.maps[m])} :
           m \in 1..Len(objects.maps)}

\* The strings made for the elements of slice literals.
EltStrings ==
  UNION {{objects.strings[objects.slices[s][e].v] : e \in 1..Len(objects.slices[s])} :
           s \in 1..Len(objects.slices)}

\* The strings of main's string constants: the literals used as expressions.
PlainStrings ==
  {objects.strings[objects.functions[2].consts[i].val.v] :
     i \in {j \in 1..Len(objects.functions[2].consts) :
              objects.functions[2].consts[j].val.t = "Str"}}

\* C12: a string literal s is materialised to the text between its quotes
\* with and without a declared type: the string made for s as the key of a
\* map literal or the element of a slice literal equals the string made for
\* s as a plain expression.
C12_SameStringConstant ==
  (src \in StringSources /\ pc = "Ok") =>
    /\ KeyStrings \cup EltStrings = PlainStrings
    /\ PlainStrings = {strip_quotes(TheLit.s)}

\* Without a declared type the quotes are shed.
C12_PlainLiteralSheds ==
  (src \in StringSources /\ pc = "Ok") => PlainStrings = {strip_quotes(TheLit.s)}

\* With a declared type the literal keeps its quotes.
C12_TypedLiteralKeepsQuotes ==
  (src \in StringSources /\ pc = "Ok") => KeyStrings \cup EltStrings = {TheLit.s}

(***************************************************************************)
(* C13: the constructs the generator does not support.                     *)
(***************************************************************************)
\* C13: every unsupported construct (labeled, send, go, defer, branch, switch,
\* type switch and select statements, import specs, type assertions, channel
\* types, fixed-length array literals, function declarations without body)
\* ends generation in an error outcome: a "not implemented" diagnostic is
\* recorded, gen returns failure and no ByteCode is produced.
C13_UnsupportedIsDiagnosed ==
  (src \in UnsupportedSources /\ Generated) =>
    (Rejected /\ Diagnosed("not implemented"))

\* No unsupported construct yields a ByteCode: each ends the program with the
\* panic of unimplemented!().
C13_UnsupportedAborts ==
  (src \in UnsupportedSources /\ Generated) =>
    (pc = Unimplemented /\ out.k = "None" /\ errors = <<>>)

(***************************************************************************)
(* C14: the jumps of an if statement.                                      *)
(***************************************************************************)
\* The generator after gen, positioned in main again.
InMain == [G EXCEPT !.func_stack = <<CtorKey, 2>>]

\* The number of code words the node is lowered to.
WordsOf(node) ==
  IF node.k = "None" THEN 0
  ELSE Len(walk(InMain, node).g.functions[2].code) - Len(MainCode)

TheBody == Sources[src].decls[2].body.list

RECURSIVE IfTargets(_, _, _), BlockTargets(_, _, _, _)

\* The jumps of the if statements of stmt, whose code starts at position
\* start of code: JUMP_IF_NOT follows the condition and targets the else
\* branch, or the first word after the body when there is none; JUMP follows
\* the body only when there is an else branch and targets the first word
\* after it.
IfTargets(code, stmt, start) ==
  CASE stmt.k = "If" ->
         LET p == start + WordsOf(stmt.init) + WordsOf(stmt.cond)
             has_els == stmt.els.k # "None"
             after_body == p + 2 + WordsOf(stmt.body)
             els == after_body + (IF has_els THEN 2 ELSE 0)
         IN  /\ code[p].op = "JUMP_IF_NOT"
             /\ Target(code, p) = els
             /\ has_els => /\ code[after_body].op = "JUMP"
                            /\ Target(code, after_body) = els + WordsOf(stmt.els)
                            /\ IfTargets(code, stmt.els, els)
             /\ WordsOf(stmt) = els + WordsOf(stmt.els) - start
             /\ BlockTargets(code, stmt.body.list, 1, p + 2)
    [] stmt.k = "Block" -> BlockTargets(code, stmt.list, 1, start)
    [] OTHER -> TRUE

BlockTargets(code, list, i, start) ==
  IF i > Len(list) THEN TRUE
  ELSE /\ IfTargets(code, list[i], start)
       /\ BlockTargets(code, list, i + 1, start + WordsOf(list[i]))

\* C14: in the code of `if cond { body }` with an optional else, the
\* JUMP_IF_NOT emitted after cond targets the first word of the else branch
\* when there is one and the first word after the body otherwise, and the
\* JUMP emitted after the body, only when there is an else, targets the first
\* word after the else branch; for arms of every length, empty ones
\* included, and for nested ifs.
C14_IfTargets ==
  (src \in IfSources /\ pc = "Ok") => BlockTargets(MainCode, TheBody, 1, 1)

OpCount(code, op) == Cardinality({i \in 1..Len(code) : code[i].op = op})

\* The nested ifs have been lowered: four conditional jumps, three of them
\* with an else branch.
C14_Witness ==
  /\ src \in IfSources /\ pc = "Ok"
  /\ OpCount(MainCode, "JUMP_IF_NOT") = 4
  /\ OpCount(MainCode, "JUMP") = 3

\* An if with two empty arms has been lowered: both jumps are followed by
\* their target.
C14_WitnessEmptyArms ==
  /\ src \in IfSources /\ pc = "Ok"
  /\ TheBody[1].k = "If" /\ TheBody[1].els.k = "Block"
  /\ TheBody[1].body.list = <<>> /\ TheBody[1].els.list = <<>>
  /\ \E i \in 1..Len(MainCode) :
       /\ MainCode[i].op = "JUMP_IF_NOT" /\ Target(MainCode, i) = i + 4
       /\ MainCode[i + 2].op = "JUMP" /\ Target(MainCode, i + 2) = i + 4

(***************************************************************************)
(* C15: the jumps of a for statement and the order they impose.            *)
(***************************************************************************)
RECURSIVE ForTargets(_, _, _), ForBlockTargets(_, _, _, _)

\* The jumps of the for statements of stmt, whose code starts at position
\* start of code: the backward JUMP follows post and targets the first word
\* of cond (of the body without cond), after init; JUMP_IF_NOT follows cond
\* and targets the word after the backward JUMP's data slot.
ForTargets(code, stmt, start) ==
  CASE stmt.k = "For" ->
         LET top == start + WordsOf(stmt.init)
             has_cond == stmt.cond.k # "None"
             body == top + (IF has_cond THEN WordsOf(stmt.cond) + 2 ELSE 0)
             back == body + WordsOf(stmt.body) + WordsOf(stmt.post)
         IN  /\ code[back].op = "JUMP"
             /\ Target(code, back) = top
             /\ has_cond => /\ code[body - 2].op = "JUMP_IF_NOT"
                             /\ Target(code, body - 2) = back + 2
             /\ WordsOf(stmt) = back + 2 - start
             /\ ForBlockTargets(code, stmt.body.list, 1, body)
    [] stmt.k = "Block" -> ForBlockTargets(code, stmt.list, 1, start)
    [] OTHER -> TRUE

ForBlockTargets(code, list, i, start) ==
  IF i > Len(list) THEN TRUE
  ELSE /\ ForTargets(code, list[i], start)
       /\ ForBlockTargets(code, list, i + 1, start + WordsOf(list[i]))

ForLayout == src \in ForSources => ForBlockTargets(MainCode, TheBody, 1, 1)

\* The parts of the code of the first statement of main, a for statement, as
\* indices counted from 0: init, cond, the JUMP_IF_NOT, body, post, the
\* backward JUMP, and what follows the loop.
TheFor == TheBody[1]

ForTop == WordsOf(TheFor.init)

ForTest == ForTop + WordsOf(TheFor.cond)

ForBodyAt == ForTest + (IF TheFor.cond.k # "None" THEN 2 ELSE 0)

ForPost == ForBodyAt + WordsOf(TheFor.body)

ForBack == ForPost + WordsOf(TheFor.post)

ForExit == ForBack + 2

Region(ip) ==
  CASE ip < ForTop -> "init"
    [] ip >= ForTop /\ ip < ForTest -> "cond"
    [] ip >= ForTest /\ ip < ForBodyAt -> "test"
    [] ip >= ForBodyAt /\ ip < ForPost -> "body"
    [] ip >= ForPost /\ ip < ForBack -> "post"
    [] ip >= ForBack /\ ip < ForExit -> "back"
    [] OTHER -> "out"

\* A step of the execution: init is left for cond and never entered again;
\* cond ends in its test, which enters the body or leaves the loop; the body
\* is followed by post, post by the backward jump, and the backward jump by
\* cond.
ForSteps ==
  (src \in ForSources /\ vm' # vm) =>
    LET r == Region(vm.ip)
    IN  CASE r = "init" -> Region(vm'.ip) = "init" \/ vm'.ip = ForTop
          [] r = "cond" -> Region(vm'.ip) = "cond" \/ vm'.ip = ForTest
          [] r = "test" -> vm'.ip \in {ForBodyAt, ForExit}
          [] r = "body" -> Region(vm'.ip) = "body" \/ vm'.ip = ForPost
          [] r = "post" -> Region(vm'.ip) = "post" \/ vm'.ip = ForBack
          [] r = "back" -> vm'.ip = ForTop
          [] r = "out" -> Region(vm'.ip) = "out"

\* The sources before the executed for loops.
ForBase == Min(ForSources) - 1

\* for x = 0; x < n; x++ { y = y * 2 } has run: x is n and y was doubled n
\* times (y was 0 or 1).
ForResult ==
  (src \in ForBase + 1..ForBase + MaxIter + 1 /\ vm.status = "returned") =>
    /\ vm.locals[1] = src - ForBase - 1
    /\ vm.locals[2] \in {0, 2 ^ (src - ForBase - 1)}

\* C15: in the code of `for init; cond; post { body }` the backward JUMP
\* emitted after post targets the first word of cond (of the body when cond is
\* absent), after init's code, and the JUMP_IF_NOT emitted after cond targets
\* the word that follows the backward JUMP's data slot; so init executes
\* once, cond is evaluated before every iteration, the first included, and
\* post executes after each body and before the next evaluation of cond.
C15_ForLoop == [](ForLayout /\ ForResult) /\ [][ForSteps]_vars

\* The nested loops have run to the end of main: the inner body ran twice
\* in each of the two runs of the outer body.
C15_Witness ==
  /\ src \in ForSources /\ vm.status = "returned"
  /\ TheFor.body.list # <<>> /\ TheFor.body.list[1].k = "For"
  /\ vm.locals[1] = 2
  /\ vm.locals[2] \in {4, 5}

(***************************************************************************)
(* C16: the jumps of a range loop.                                         *)
(***************************************************************************)
\* The words pushed to prepare a target: the operands of an index, selector
\* or deref expression; none for an identifier.
LhsWords(e) ==
  CASE e.k = "Index" -> WordsOf(e.x) + WordsOf(e.index)
    [] e.k = "Selector" -> WordsOf(e.x) + 2
    [] e.k = "Star" -> WordsOf(e.x)
    [] OTHER -> 0

\* The position of RANGE in the code of a range statement that starts at
\* start: after the targets' operands, the iterable and PUSH_IMM(-1).
RangeWord(stmt, start) ==
  start + LhsWords(stmt.key) + LhsWords(stmt.val) + WordsOf(stmt.x) + 2

RECURSIVE RangeTargets(_, _, _), RangeBlockTargets(_, _, _, _), WordsBefore(_, _)

\* The jumps of the range loops of stmt, whose code starts at position start
\* of code: the backward JUMP ends the loop and targets RANGE, which follows
\* the seed; RANGE's data word targets the word after the backward JUMP's
\* data slot.
RangeTargets(code, stmt, start) ==
  CASE stmt.k = "Range" ->
         LET rng == RangeWord(stmt, start)
             back == start + WordsOf(stmt) - 2
         IN  /\ code[rng].op = "RANGE"
             /\ code[rng - 2].op = "PUSH_IMM" /\ code[rng - 1] = Data(-1)
             /\ code[back].op = "JUMP"
             /\ Target(code, back) = rng
             /\ Target(code, rng) = back + 2
             /\ RangeBlockTargets(code, stmt.body.list, 1, back - WordsOf(stmt.body))
    [] stmt.k = "Block" -> RangeBlockTargets(code, stmt.list, 1, start)
    [] OTHER -> TRUE

RangeBlockTargets(code, list, i, start) ==
  IF i > Len(list) THEN TRUE
  ELSE /\ RangeTargets(code, list[i], start)
       /\ RangeBlockTargets(code, list, i + 1, start + WordsOf(list[i]))

\* main is executed and one of its statements is a range loop.
HasRange == src \in ExecutedSources /\ \E i \in 1..Len(TheBody) : TheBody[i].k = "Range"

RangeLayout == HasRange => RangeBlockTargets(MainCode, TheBody, 1, 1)

\* The first range statement of main.
RangeIdx ==
  CHOOSE i \in 1..Len(TheBody) :
    TheBody[i].k = "Range" /\ \A j \in 1..(i - 1) : TheBody[j].k # "Range"

\* The words of the statements before statement i.
WordsBefore(list, i) ==
  IF i <= 1 THEN 0 ELSE WordsBefore(list, i - 1) + WordsOf(list[i - 1])

\* The indices, counted from 0, of its RANGE and of its backward JUMP.
RangeAt == RangeWord(TheBody[RangeIdx], WordsBefore(TheBody, RangeIdx))

RangeBack == WordsBefore(TheBody, RangeIdx) + WordsOf(TheBody[RangeIdx]) - 2

\* A step of the execution: once RANGE is reached, the code before it (the
\* iterable and the seed) is not executed again; the backward JUMP leads to
\* RANGE; RANGE enters the iteration or leaves for the word after the
\* backward JUMP's data slot.
RangeSteps ==
  (HasRange /\ vm' # vm) =>
    /\ vm.ip >= RangeAt => vm'.ip >= RangeAt
    /\ (vm.ip = RangeBack /\ vm.status = "run") => vm'.ip = RangeAt
    /\ (vm.ip = RangeAt /\ vm.status = "run") => vm'.ip \in {RangeAt + 2, RangeBack + 2}

\* C16: the backward JUMP emitted after the body of a range loop targets the
\* RANGE word itself, not the code of the iterable nor the PUSH_IMM(-1) seed,
\* which therefore execute exactly once; the exit offset in the data word
\* that follows RANGE targets the first word after the backward JUMP's data
\* slot.
C16_RangeLoop == []RangeLayout /\ [][RangeSteps]_vars

\* The nested range loops over a slice of MaxEntries entries have run to the
\* end of main, after at least one full run of the inner loop.
C16_Witness ==
  /\ src \in RangeSources /\ vm.status = "returned"
  /\ OpCount(MainCode, "RANGE") = 2
  /\ Len(vm.locals[3]) = MaxEntries
  /\ vm.locals[2] >= MaxEntries

(***************************************************************************)
(* C17: a range loop that stores into index, selector and deref targets.   *)
(***************************************************************************)
\* The range statement of the source: the only statement of main.
RangeLhs == TheBody[1]

\* The stack words a target's preparation pushed.
PrepOf(e) == PrepWords(<<e>>)

\* The positions of the two STOREs of the iteration: they follow RANGE and
\* its data word, three words each.
KeyStore == RangeWord(RangeLhs, 1) + 2

ValStore == KeyStore + 3

\* When the stores execute the stack holds, from the top: the value, the key,
\* the cursor, the iterable, the words of the value target and the words of
\* the key target.  The offset of the first word of each target:
KeyContainer == -(4 + PrepOf(RangeLhs.val) + PrepOf(RangeLhs.key))

ValContainer == -(4 + PrepOf(RangeLhs.val))

\* C17: in a range loop whose key or value target is an index, selector or
\* deref expression, the container offset of each STORE addresses the
\* container word pushed for its target, and the POPs of an iteration remove
\* only the key/value pair of the RANGE tick, so that the iterable and the
\* cursor are directly below the top at the next tick.
C17_RangeStoresAndPops ==
  (src \in RangeLhsSources /\ pc = "Ok") =>
    /\ PrepOf(RangeLhs.key) > 0 => MainCode[KeyStore + 1].d = KeyContainer
    /\ PrepOf(RangeLhs.val) > 0 => MainCode[ValStore + 1].d = ValContainer
    /\ OpCount(MainCode, "POP") = 2

\* What the code emits: the container offsets of an assignment without the
\* iterable and the cursor in between, and one POP per word of the targets
\* and of the pair.
C17_AsPlainAssignment ==
  (src \in RangeLhsSources /\ pc = "Ok") =>
    /\ PrepOf(RangeLhs.key) > 0 => MainCode[KeyStore + 1].d = KeyContainer + 2
    /\ PrepOf(RangeLhs.val) > 0 => MainCode[ValStore + 1].d = ValContainer + 2
    /\ OpCount(MainCode, "POP") = 2 + PrepOf(RangeLhs.key) + PrepOf(RangeLhs.val)
    /\ MainCode[KeyStore + 2].d = -2 /\ MainCode[ValStore + 2].d = -1

(***************************************************************************)
(* C18: the offsets carried by the STOREs of a plain assignment.           *)
(***************************************************************************)
\* main is one assignment or short declaration with as many values as
\* targets.
Parallel ==
  /\ OneStmt /\ TheStmt.k = "Assign" /\ TheStmt.tok \in {"ASSIGN", "DEFINE"}
  /\ Len(TheStmt.lhs) = Len(TheStmt.rhs)
  /\ src \notin LongJump

RECURSIVE SumLhsWords(_, _), SumWords(_, _)

\* The code words of the operands of the first i targets.
SumLhsWords(targets, i) ==
  IF i = 0 THEN 0 ELSE SumLhsWords(targets, i - 1) + LhsWords(targets[i])

\* The code words of the first i expressions.
SumWords(exprs, i) == IF i = 0 THEN 0 ELSE SumWords(exprs, i - 1) + WordsOf(exprs[i])

\* The position of the STORE of target j: the stores follow the operands of
\* the targets and the values, three words each.
StorePos(stmt, j) ==
  SumLhsWords(stmt.lhs, Len(stmt.lhs)) + SumWords(stmt.rhs, Len(stmt.rhs)) + 1 + 3 * (j - 1)

\* The STORE opcode of a target.
StoreOf(e) ==
  CASE e.k \in {"Index", "Selector"} -> {"STORE_FIELD"}
    [] e.k = "Star" -> {"STORE_DEREF"}
    [] OTHER -> {"STORE_LOCAL", "STORE_UPVALUE", "STORE_THIS_PKG_FIELD", "STORE_BLANK"}

\* C18: for a plain assignment with n targets, n values and L preparation
\* words, the STORE of target i (from 0) carries the value offset i - n, that
\* of the i-th value counted from the top of the stack, and the STORE of an
\* index, selector or deref target carries a container offset that starts at
\* -(L + n) and advances by 2 (index, selector) or 1 (deref) per such
\* target, identifiers not advancing it: the offset of the first word pushed
\* for that target.
C18_StoreOffsets ==
  (Parallel /\ pc = "Ok") =>
    LET lhs == TheStmt.lhs
        n == Len(lhs)
        L == PrepWords(lhs)
    IN  \A j \in 1..n :
          /\ MainCode[StorePos(TheStmt, j)].op \in StoreOf(lhs[j])
          /\ MainCode[StorePos(TheStmt, j) + 2].d = (j - 1) - n
          /\ PrepOf(lhs[j]) > 0 =>
                MainCode[StorePos(TheStmt, j) + 1].d
                  = -(L + n) + PrepWords(SubSeq(lhs, 1, j - 1))

\* *p, a.fld, *p = 1, 2, x has been generated: 3 values, 4 preparation
\* words; the second deref is the third target and its single word is the
\* fourth of the preparation words.
C18_Witness ==
  /\ Parallel /\ pc = "Ok"
  /\ Len(TheStmt.lhs) = 3 /\ PrepWords(TheStmt.lhs) = 4
  /\ MainCode[StorePos(TheStmt, 3)] = Code("STORE_DEREF")
  /\ MainCode[StorePos(TheStmt, 3) + 1] = Data(-4)
  /\ MainCode[StorePos(TheStmt, 3) + 2] = Data(-1)

(***************************************************************************)
(* C19: the order of a parallel assignment.                                *)
(***************************************************************************)
\* The code words the node is lowered to.
CodeFor(node) ==
  LET code == walk(InMain, node).g.functions[2].code
  IN  SubSeq(code, Len(MainCode) + 1, Len(code))

\* The code of the operands of target e starts at position at of code: the
\* container and the index, the container and the load of the field's name,
\* or the pointer.
OperandsAt(code, e, at) ==
  CASE e.k = "Index" ->
         SubSeq(code, at, at + LhsWords(e) - 1) = CodeFor(e.x) \o CodeFor(e.index)
    [] e.k = "Selector" ->
         SubSeq(code, at, at + LhsWords(e) - 2) = CodeFor(e.x) \o <<Code("PUSH_CONST")>>
    [] e.k = "Star" -> SubSeq(code, at, at + LhsWords(e) - 1) = CodeFor(e.x)
    [] OTHER -> TRUE

\* The local slot of an identifier, as its load names it.
SlotOf(ident) == CodeFor(ident)[2].d + 1

\* stmt, whose code starts at position start of code, is lowered to the
\* operands of its targets in target order, then its values in order, then
\* one STORE per target in target order, then one POP per stack word.
ParLayout(code, stmt, start) ==
  LET lhs == stmt.lhs
      rhs == stmt.rhs
      n == Len(lhs)
      values == start + SumLhsWords(lhs, n)
      stores == values + SumWords(rhs, n)
      pops == stores + 3 * n
  IN  /\ \A j \in 1..n : OperandsAt(code, lhs[j], start + SumLhsWords(lhs, j - 1))
      /\ \A j \in 1..n :
            SubSeq(code, values + SumWords(rhs, j - 1), values + SumWords(rhs, j) - 1)
              = CodeFor(rhs[j])
      /\ \A j \in 1..n :
            /\ code[stores + 3 * (j - 1)].op \in StoreOf(lhs[j])
            /\ code[stores + 3 * (j - 1)].op = "STORE_LOCAL" =>
                  code[stores + 3 * (j - 1) + 1].d + 1 = SlotOf(lhs[j])
      /\ \A k \in 0..(PrepWords(lhs) + n - 1) : code[pops + k].op = "POP"
      /\ WordsOf(stmt) = pops + PrepWords(lhs) + n - start

\* The parallel assignment of main is its last statement.
ParStmt == TheBody[Len(TheBody)]

\* The indices, counted from 0, of its first word, of its first STORE and of
\* the word after it.
ParStart == WordsBefore(TheBody, Len(TheBody))

FirstStore == ParStart + StorePos(ParStmt, 1) - 1

ParEnd == ParStart + WordsOf(ParStmt)

ParLayoutHolds ==
  src \in AssignSources \cup SwapSources => ParLayout(MainCode, ParStmt, ParStart + 1)

RECURSIVE Eval(_, _), Assigned(_, _, _, _)

\* The value of an expression in the state with the given local slots.
Eval(e, locals) ==
  CASE e.k = "Ident" -> locals[SlotOf(e)]
    [] e.k = "BasicLit" -> e.n
    [] e.k = "Binary" -> Arith(e.op, Eval(e.x, locals), Eval(e.y, locals))

\* The local slots after the first j targets have received their values.
Assigned(locals, lhs, vals, j) ==
  IF j = 0 THEN locals
  ELSE LET before == Assigned(locals, lhs, vals, j - 1)
       IN  IF lhs[j].name = "_" THEN before
           ELSE [before EXCEPT ![SlotOf(lhs[j])] = vals[j]]

\* When the first STORE is reached no local has been written since the
\* statement started, and the stack holds the values of the right-hand
\* expressions in order.
ParValues ==
  (src \in SwapSources /\ vm.status = "run" /\ vm.ip = FirstStore) =>
    \A j \in 1..Len(ParStmt.rhs) :
      StackAt(j - 1 - Len(ParStmt.rhs)) = Eval(ParStmt.rhs[j], vm.locals)

\* A step of the statement: no local is written before the first STORE; the
\* STORE of target j writes the j-th value into it and nothing else; no
\* value is evaluated after a STORE.
ParSteps ==
  (src \in SwapSources /\ vm' # vm /\ vm.ip >= ParStart) =>
    /\ vm.ip < FirstStore => vm'.locals = vm.locals
    /\ vm.ip >= FirstStore => (vm'.ip > vm.ip \/ vm'.status = "returned")
    /\ \A j \in 1..Len(ParStmt.lhs) :
         vm.ip = FirstStore + 3 * (j - 1) =>
           /\ vm'.stack = vm.stack
           /\ vm'.locals =
                IF ParStmt.lhs[j].name = "_" THEN vm.locals
                ELSE [vm.locals EXCEPT ![SlotOf(ParStmt.lhs[j])] =
                                         StackAt(j - 1 - Len(ParStmt.lhs))]

\* The local slots when the parallel assignment starts, for a main whose
\* first two statements set the variables the assignment reads.
StartLocals ==
  Assigned(vm.locals, <<TheBody[1].lhs[1], TheBody[2].lhs[1]>>,
           <<TheBody[1].rhs[1].n, TheBody[2].rhs[1].n>>, 2)

\* After the statement every target holds the value its right-hand
\* expression had when the statement started, and the stack is as before.
ParResult ==
  (src \in SwapSources /\ Len(TheBody) = 3 /\ vm.ip >= ParEnd) =>
    /\ vm.stack = <<>>
    /\ vm.locals =
         Assigned(StartLocals, ParStmt.lhs,
                  [j \in 1..Len(ParStmt.rhs) |-> Eval(ParStmt.rhs[j], StartLocals)],
                  Len(ParStmt.lhs))

\* C19: in a parallel assignment a0, ..., an-1 = e0, ..., en-1 the code of
\* every target's operands is emitted first, then the code of every ei in
\* order, and only then the stores in target order; so every ei is evaluated
\* before any target is written and each target receives the value its
\* right-hand expression had before the statement modified anything
\* (a, b = b, a swaps the two values).
C19_ParallelAssign == [](ParLayoutHolds /\ ParValues /\ ParResult) /\ [][ParSteps]_vars

\* x = 1; y = 2; x, y = y, x has run to the end: the values are swapped.
C19_Witness ==
  /\ src \in SwapSources /\ Len(TheBody) = 3 /\ ParStmt.rhs = <<Y, X>>
  /\ vm.status = "returned"
  /\ vm.locals[SlotOf(X)] = 2 /\ vm.locals[SlotOf(Y)] = 1

(***************************************************************************)
(* C20: the return statement.                                              *)
(***************************************************************************)
\* The return statement of main is its last statement; the statements before
\* it assign literals to variables.
RetStmt == TheBody[Len(TheBody)]

\* The index, counted from 0, of its RETURN.
RetAt == WordsBefore(TheBody, Len(TheBody)) + WordsOf(RetStmt) - 1

\* The local slots when the return statement started, as far as its results
\* read them: the variables the statements before it have set hold those
\* literals, the parameters are never written.
RetStartLocals ==
  Assigned(vm.locals,
           [i \in 1..(Len(TheBody) - 1) |-> TheBody[i].lhs[1]],
           [i \in 1..(Len(TheBody) - 1) |-> TheBody[i].rhs[1].n],
           Len(TheBody) - 1)

RECURSIVE SlotsRead(_)

\* The local slots an expression reads.
SlotsRead(e) ==
  CASE e.k = "Ident" -> {SlotOf(e)}
    [] e.k = "Binary" -> SlotsRead(e.x) \cup SlotsRead(e.y)
    [] OTHER -> {}

\* A later result reads the return slot an earlier result is stored into.
ReadsEarlierSlot ==
  \E i, j \in 1..Len(RetStmt.results) : i < j /\ i \in SlotsRead(RetStmt.results[j])

Returned == src \in ReturnSources /\ vm.status = "returned"

\* C20: after the code of return e0, ..., en-1 has executed, return slot i
\* holds the value that ei had in the state in which the return statement
\* started, for every i, also when a later ej reads the result variable that
\* occupies an earlier slot (return s, r with results named r, s).
C20_ReturnSlots ==
  Returned =>
    \A i \in 1..Len(RetStmt.results) :
      vm.locals[i] = Eval(RetStmt.results[i], RetStartLocals)

\* The same when no later result reads an earlier return slot.
C20_ReturnSlotsWithoutOverlap ==
  (Returned /\ ~ReadsEarlierSlot) =>
    \A i \in 1..Len(RetStmt.results) :
      vm.locals[i] = Eval(RetStmt.results[i], RetStartLocals)

\* return s, r stores s into the slot of r before it reads r: both slots hold
\* the value of s.
C20_OverlapLosesValue ==
  (Returned /\ RetStmt.results = <<S, R>>) => vm.locals[1] = 2 /\ vm.locals[2] = 2

\* The statement leaves the stack as it found it, its code ends with RETURN
\* and holds no other, and the execution ends there.
C20_StackNeutralOneReturn ==
  src \in ReturnSources =>
    /\ MainCode[RetAt + 1].op = "RETURN"
    /\ \A i \in (WordsBefore(TheBody, Len(TheBody)) + 1)..RetAt : MainCode[i].op # "RETURN"
    /\ vm.ip <= RetAt
    /\ vm.status = "returned" => vm.ip = RetAt /\ vm.stack = <<>>

(***************************************************************************)
(* C21: the order in which resolve_ident consults its sources.             *)
(***************************************************************************)
\* Every function literal is a constant of the function built just before
\* it: the functions are nested one in the other, main in the package.
NestedLinearly ==
  \A k \in 3..Len(objects.functions) :
    \E i \in 1..Len(objects.functions[k - 1].consts) :
      objects.functions[k - 1].consts[i].val = Val("Function", k)

\* The generator at the end of the body of function k: the construction
\* stack holds the package constructor, main and the literals down to k.
AtDepth(k) == [G EXCEPT !.func_stack = [i \in 1..k |-> i]]

\* The identifiers resolved: parameters of main, the package variable, the
\* variable a literal defines, the built-in values, an undefined name.
ResolvedIdents == {X, Y, A, P, GV, W, TrueId, FalseId, NilId, U}

\* The functions strictly between the package constructor and the current
\* function whose table holds the entity.
EnclosingWith(g, ent) ==
  {g.func_stack[i] : i \in {j \in 2..(Len(g.func_stack) - 1) :
                             ent \in DOMAIN g.functions[g.func_stack[j]].entities}}

Members(g) == g.pkgs[g.current_pkg].member_indices

\* resolve_ident answers from the first source that holds the identifier.
ResolvesInOrder(g, id) ==
  LET r == resolve_ident(g, id)
      cur == current_func(g)
  IN  IF id.ent = NoEnt
      THEN IF id.name = "true" THEN r = RV(g, "Ok", BuiltIn("PUSH_TRUE"))
           ELSE IF id.name = "false" THEN r = RV(g, "Ok", BuiltIn("PUSH_FALSE"))
           ELSE IF id.name = "nil" THEN r = RV(g, "Ok", BuiltIn("PUSH_NIL"))
           ELSE /\ r.r = "Err"
                /\ r.g = [g EXCEPT !.errors =
                            Append(@, [pos |-> id.pos, msg |-> "undefined", arg |-> id.name])]
      ELSE IF id.ent \in DOMAIN cur.entities
      THEN r = RV(g, "Ok", cur.entities[id.ent])
      ELSE IF EnclosingWith(g, id.ent) # {}
      THEN r.r = "Ok" /\ r.v.k = "UpValue"
      ELSE IF id.ent \in DOMAIN Members(g)
      THEN r = RV(g, "Ok", PackageMember(Members(g)[id.ent]))
      ELSE r.r \notin {"Ok", "Err"}

Nested == src \in ClosureSources /\ pc = "Ok" /\ NestedLinearly

\* C21: resolve_ident returns, for an identifier that has an entity, the
\* first match in the order current function's table, enclosing function's
\* table (an UpValue index), current package's member table (PackageMember);
\* for an identifier without entity it returns BuiltIn(PUSH_TRUE, PUSH_FALSE,
\* PUSH_NIL) exactly when the name is true, false, nil, and otherwise records
\* an undefined diagnostic and fails.
C21_ResolveOrder ==
  Nested =>
    \A k \in 1..Len(objects.functions), id \in ResolvedIdents :
      ResolvesInOrder(AtDepth(k), id)

\* In the innermost literal of func() { x = 1; func() { y = gv }() }() every
\* source answers: y from the literal's own table, p from main, gv from
\* the package, nil from the built-ins, and u from none.
C21_Witness ==
  /\ Nested /\ Len(objects.functions) = 4
  /\ Y.ent \in DOMAIN objects.functions[4].entities
  /\ resolve_ident(AtDepth(4), Y).v = UpValue(0)
  /\ resolve_ident(AtDepth(4), P).v = UpValue(1)
  /\ resolve_ident(AtDepth(4), GV).v.k = "PackageMember"
  /\ resolve_ident(AtDepth(4), NilId).v = BuiltIn("PUSH_NIL")
  /\ resolve_ident(AtDepth(4), U).r = "Err"
  /\ resolve_ident(AtDepth(1), GV).v.k = "LocalVar"

(***************************************************************************)
(* C22: the owner of an upvalue.                                           *)
(***************************************************************************)
\* The upvalues resolve_ident appends to the current function of g.
CreatedBy(g, id) ==
  LET before == current_func(g).up_ptrs
      after == resolve_ident(g, id).g.functions[current_func_key(g)].up_ptrs
  IN  {after[i] : i \in (Len(before) + 1)..Len(after)}

\* The stack positions strictly between the package constructor and the
\* current function whose function holds the entity in its table.
PositionsWith(g, ent) ==
  {j \in 2..(Len(g.func_stack) - 1) : ent \in DOMAIN g.functions[g.func_stack[j]].entities}

\* The entities of the package-level variables.
PackageVars == {GV.ent}

HasOwner(g, id) ==
  \A uv \in CreatedBy(g, id) :
    /\ uv.k = "Open"
    /\ PositionsWith(g, id.ent) # {}
    /\ uv.func = g.func_stack[Max(PositionsWith(g, id.ent))]
    /\ uv.index = g.functions[uv.func].entities[id.ent].i
    /\ uv.func # g.func_stack[1] /\ uv.func # current_func_key(g)

\* C22: every upvalue created by resolve_ident is Open(owner, index) where
\* owner is the innermost function on the construction stack, strictly
\* between the package constructor and the current function, whose table
\* contains the entity, and index is the entity's index in owner; so a
\* package-level variable referenced from a function at any depth resolves
\* to PackageMember, never to UpValue, and no function holds it as upvalue.
C22_UpvalueOwner ==
  Nested =>
    /\ \A k \in 1..Len(objects.functions), id \in ResolvedIdents \ {TrueId, FalseId, NilId, U} :
          /\ HasOwner(AtDepth(k), id)
          /\ (id.ent \in PackageVars /\ k >= 2) =>
                /\ resolve_ident(AtDepth(k), id).v.k = "PackageMember"
                /\ CreatedBy(AtDepth(k), id) = {}
    /\ \A k \in 2..Len(objects.functions) :
          /\ \A e \in PackageVars : e \notin DOMAIN objects.functions[k].entities
          /\ \A i \in 1..Len(objects.functions[k].up_ptrs) :
                LET uv == objects.functions[k].up_ptrs[i]
                IN  uv.k = "Open" /\ uv.func \in 2..(k - 1)

\* In the innermost literal of func() { x = 1; func() { y = gv }() }() the
\* parameter p is captured from main, two levels up, x from the literal
\* around it, which has captured it, and gv is a package member.
C22_Witness ==
  /\ Nested /\ Len(objects.functions) = 4
  /\ CreatedBy(AtDepth(4), P) = {[k |-> "Open", func |-> 2, index |-> 3]}
  /\ CreatedBy(AtDepth(4), X) = {[k |-> "Open", func |-> 3, index |-> 0]}
  /\ objects.functions[4].up_ptrs = <<[k |-> "Open", func |-> 2, index |-> 1]>>
  /\ HasOp(CodeOf(4), "LOAD_THIS_PKG_FIELD")

(***************************************************************************)
(* C23: captures across two or more levels of function literals.           *)
(***************************************************************************)
\* Function fk holds the entity as an Open upvalue.
HoldsUpvalue(g, fk, ent) ==
  /\ ent \in DOMAIN g.functions[fk].entities
  /\ g.functions[fk].entities[ent].k = "UpValue"
  /\ g.functions[fk].up_ptrs[g.functions[fk].entities[ent].i + 1].k = "Open"

\* resolve_ident creates an upvalue whose owner is not the parent of the
\* current function.
CapturesAcross(g, id) ==
  /\ CreatedBy(g, id) # {}
  /\ Max(PositionsWith(g, id.ent)) < Len(g.func_stack) - 1

\* The entities with a table entry.
Captured == {X.ent, Y.ent, A.ent, P.ent, W.ent}

\* C23: when the owner of a captured variable is not the immediate parent of
\* the current function, resolve_ident inserts an Open upvalue for the entity
\* in the current function and in every function on the construction stack
\* between the owner and the current function.
C23_IntermediateUpvalues ==
  Nested =>
    /\ \A k \in 1..Len(objects.functions), id \in {X, Y, A, P, W} :
          CapturesAcross(AtDepth(k), id) =>
            \A j \in (Max(PositionsWith(AtDepth(k), id.ent)) + 1)..k :
              HoldsUpvalue(resolve_ident(AtDepth(k), id).g, j, id.ent)
    /\ \A k \in 3..Len(objects.functions), e \in Captured :
          HoldsUpvalue(G, k, e) =>
            \A j \in (objects.functions[k].up_ptrs[objects.functions[k].entities[e].i + 1].func
                         + 1)..k :
              HoldsUpvalue(G, j, e)

\* resolve_ident changes the current function only, whatever the distance to
\* the owner, and there it inserts the Open upvalue.
C23_CurrentFunctionOnly ==
  Nested =>
    \A k \in 1..Len(objects.functions), id \in {X, Y, A, P, W} :
      LET g == AtDepth(k)
          r == resolve_ident(g, id)
      IN  /\ \A j \in 1..Len(g.functions) : j # k => r.g.functions[j] = g.functions[j]
          /\ CreatedBy(g, id) # {} => HoldsUpvalue(r.g, k, id.ent)

\* func() { x = 1; func() { y = gv }() }() has been generated: the inner
\* literal holds y of main as an upvalue, the literal between them does not.
C23_Witness ==
  /\ Nested /\ Len(objects.functions) = 4
  /\ HoldsUpvalue(G, 4, Y.ent)
  /\ objects.functions[4].up_ptrs[1].func = 2
  /\ Y.ent \notin DOMAIN objects.functions[3].entities
  /\ CapturesAcross(AtDepth(4), P)

(***************************************************************************)
(* C24: the stack effect of && and ||.                                     *)
(***************************************************************************)
\* main is x = e with e a short-circuit expression: the code of e starts at
\* index 0 and is followed by STORE with its two data words, POP and the
\* RETURN of main.
SCExpr == TheStmt.rhs[1]

SCEnd == Len(MainCode) - 5

\* The source whose right operand is longer than I16Max words.
LongOperand == Max(ShortSources)

RECURSIVE GoValue(_, _)

\* The value of an expression in Go, in the state with the given locals.
GoValue(e, locals) ==
  CASE e.k = "Ident" ->
         IF e.name = "true" THEN TRUE
         ELSE IF e.name = "false" THEN FALSE
         ELSE locals[SlotOf(e)]
    [] e.k = "BasicLit" -> e.n
    [] e.k = "Binary" ->
         IF e.op = "LAND" THEN GoValue(e.x, locals) /\ GoValue(e.y, locals)
         ELSE IF e.op = "LOR" THEN GoValue(e.x, locals) \/ GoValue(e.y, locals)
         ELSE Arith(e.op, GoValue(e.x, locals), GoValue(e.y, locals))

RECURSIVE SCNodeSteps(_, _, _)

\* A step of the code of e, which occupies the indices start..(stop - 1).
\* For a && b (a || b): the conditional jump after a consumes the value it
\* tests and leads to the first word of b or, when a decides, to the tail;
\* the JUMP after b leads past the tail and pushes nothing; the tail pushes
\* the constant and ends the expression.
SCNodeSteps(e, start, stop) ==
  IF e.k # "Binary" THEN TRUE
  ELSE IF e.op \in {"LAND", "LOR"}
  THEN LET test == start + WordsOf(e.x)
           tail == stop - 1
       IN  /\ vm.ip = test =>
                 /\ vm'.stack = Pop(vm.stack, 1)
                 /\ vm'.ip = IF StackAt(-1) = (e.op = "LOR") THEN tail ELSE test + 2
           /\ vm.ip = stop - 3 => vm'.ip = stop /\ vm'.stack = vm.stack
           /\ vm.ip = tail => vm'.ip = stop /\ vm'.stack = Push(vm.stack, e.op = "LOR")
           /\ SCNodeSteps(e.x, start, test)
           /\ SCNodeSteps(e.y, test + 2, stop - 3)
  ELSE /\ SCNodeSteps(e.x, start, start + WordsOf(e.x))
       /\ SCNodeSteps(e.y, start + WordsOf(e.x), stop - 1)

SCSteps(sources) ==
  (src \in sources /\ vm' # vm /\ vm.ip < SCEnd) => SCNodeSteps(SCExpr, 0, SCEnd)

\* When the code of the expression has run, the stack holds one value, that
\* of the expression.
SCResult(sources) ==
  (src \in sources /\ vm.ip = SCEnd) =>
    vm.stack = <<GoValue(SCExpr, vm.locals)>>

\* The execution does not stop inside the code of the expression.
SCLeaves(sources) ==
  (src \in sources /\ vm.ip # SCEnd /\ vm.status = "run") =>
    vm.ip >= 0 /\ vm.ip < Len(MainCode)

\* C24: executing the code of a && b or a || b, with the conditional jump
\* consuming the value it tests, leaves exactly one value on the stack on
\* both paths: the value of b when b is evaluated (the JUMP with offset 1
\* after b skips the one-word tail and lands on the first word after the
\* expression) and the constant false (&&) or true (||) when b is skipped;
\* on neither path are both b's value and the constant pushed.
C24_OneValueOnBothPaths ==
  /\ [](SCResult(ShortSources) /\ SCLeaves(ShortSources))
  /\ [][SCSteps(ShortSources)]_vars

\* The same for operands whose code is shorter than I16Max words.
C24_ShortOperands ==
  /\ [](SCResult(ShortSources \ {LongOperand}) /\ SCLeaves(ShortSources \ {LongOperand}))
  /\ [][SCSteps(ShortSources \ {LongOperand})]_vars

\* x = false && x(y, ..., y): the conditional jump has consumed false and
\* the frame is before the first word of the code.
C24_Witness ==
  /\ src = LongOperand
  /\ vm.status = "run" /\ vm.stack = <<>> /\ vm.ip < 0

\* x = (y == 1 && x == 1) || y == 1 has run with y = 1: the inner && has
\* pushed its constant, the outer || has evaluated its right operand, and x
\* holds true.
C24_WitnessNested ==
  /\ src \in ShortSources /\ SCExpr.op = "LOR" /\ SCExpr.x.k = "Binary" /\ SCExpr.x.op = "LAND"
  /\ vm.status = "returned"
  /\ vm.locals[SlotOf(Y)] = 1 /\ vm.locals[SlotOf(X)] = TRUE

====
